---- MODULE Spec2Model ----
(***************************************************************************)
(* The feature/lookup organizer of fea-rs (src/fea-rs/src/compile.rs):     *)
(* CompilationCtx, AllLookups and the compile() walk over the AST.         *)
(*                                                                         *)
(* Option<T> is modelled as a sequence: None is << >>, Some(x) is <<x>>.   *)
(* A map is a function whose DOMAIN is the set of keys present.            *)
(* A panic (assert!, expect, unwrap) ends the program: panicked is set and *)
(* no further handler runs.                                                *)
(***************************************************************************)
EXTENDS Integers, Sequences, FiniteSets, TLC

\* ------------------------------------------------------------------ bounds
MaxLookups == 2   \* lookups created in one session (finished + current)
MaxErrors == 1    \* diagnostics recorded in one session
MaxList == 2      \* length of a feature's lookup list a lookup reference may extend

\* ------------------------------------------------------------------ tags
AALT_TAG == "aalt"
SIZE_TAG == "size"
LANG_DFLT_TAG == "dflt"
SCRIPT_DFLT_TAG == "DFLT"

FeatureTags == {"liga", SIZE_TAG, AALT_TAG}
ScriptTags == {SCRIPT_DFLT_TAG, "latn"}
LangTags == {LANG_DFLT_TAG, "TRK"}
LangSysInputs == {<<"latn", LANG_DFLT_TAG>>, <<"latn", "TRK">>}
LookupNames == {"l1"}

None == << >>
Some(x) == <<x>>
EmptyMap == << >>

\* ------------------------------------------------------------------ kinds
GsubKinds == {"GsubType1"}
GposKinds == {"GposType1", "GposType2"}
LookupKinds == GsubKinds \cup GposKinds

is_gpos_rule(kind) == kind \in {"GposType1", "GposType2", "GposType3", "GposType4",
                                "GposType5", "GposType6", "GposType7", "GposType8"}

\* LookupId::Gpos(i) / LookupId::Gsub(i), i counted from 0 as in the code
Gpos(i) == <<"Gpos", i>>
Gsub(i) == <<"Gsub", i>>

\* ------------------------------------------------------------------ SomeLookup
\* Lookup { flags, mark_filtering_set, rule }: rule is the vector of subtables,
\* each a mapping; a new lookup holds its first, empty subtable.
Default_rule == <<EmptyMap>>

SomeLookup_new(kind, flags, mark_filtering_set) ==
    [kind |-> kind, flags |-> flags, mark_filtering_set |-> mark_filtering_set,
     subtables |-> Default_rule]

SomeLookup_kind(lookup) == lookup.kind

MapInsert(m, k, v) == [x \in DOMAIN m \cup {k} |-> IF x = k THEN v ELSE m[x]]

\* subtable = table.last_mut().unwrap(); subtable.mapping.insert(key, value)
add_rule(lookup, key, value) ==
    LET n == Len(lookup.subtables) IN
    [lookup EXCEPT !.subtables[n] = MapInsert(@, key, value)]

\* ------------------------------------------------------------------ AllLookups
AllLookups_default ==
    [current |-> None, current_name |-> None, gpos |-> << >>, gsub |-> << >>,
     named |-> EmptyMap]

\* a push that numbers from 1: the id is len()
push_numbering_from_one(lk, lookup) ==
    IF is_gpos_rule(lookup.kind)
    THEN LET v == Append(lk.gpos, lookup) IN
         [lk |-> [lk EXCEPT !.gpos = v], id |-> Gpos(Len(v))]
    ELSE LET v == Append(lk.gsub, lookup) IN
         [lk |-> [lk EXCEPT !.gsub = v], id |-> Gsub(Len(v))]

\* push: the lookup goes to the end of its kind's vector; the id is len() - 1
push(lk, lookup) ==
    IF is_gpos_rule(lookup.kind)
    THEN LET v == Append(lk.gpos, lookup) IN
         [lk |-> [lk EXCEPT !.gpos = v], id |-> Gpos(Len(v) - 1)]
    ELSE LET v == Append(lk.gsub, lookup) IN
         [lk |-> [lk EXCEPT !.gsub = v], id |-> Gsub(Len(v) - 1)]

get_named(lk, name) == IF name \in DOMAIN lk.named THEN Some(lk.named[name]) ELSE None

is_named(lk) == lk.current_name # None

needs_new_lookup(lk, kind) ==
    (IF lk.current # None THEN Some(SomeLookup_kind(lk.current[1])) ELSE None) = Some(kind)

\* ret: Some(<<id, name>>) with name an Option, or None
finish_current(lk) ==
    IF lk.current # None
    THEN LET p == push([lk EXCEPT !.current = None], lk.current[1]) IN
         IF lk.current_name # None
         THEN [lk |-> [p.lk EXCEPT !.current_name = None,
                                   !.named = MapInsert(@, lk.current_name[1], p.id)],
               ret |-> Some([id |-> p.id, name |-> lk.current_name])]
         ELSE [lk |-> p.lk, ret |-> Some([id |-> p.id, name |-> None])]
    ELSE [lk |-> lk, ret |-> None]

\* ret: Option<LookupId> of the lookup that was current; panic: the assertion failed
start_lookup(lk, kind, name, flags, mark_set) ==
    IF lk.current_name # None
    THEN [lk |-> lk, ret |-> None, panic |-> TRUE]
    ELSE LET p == IF lk.current # None
                  THEN push([lk EXCEPT !.current = None], lk.current[1])
                  ELSE [lk |-> lk, id |-> Gsub(0)]
             finished_id == IF lk.current # None THEN Some(p.id) ELSE None
         IN [lk |-> [p.lk EXCEPT !.current = Some(SomeLookup_new(kind, flags, mark_set)),
                                 !.current_name = name],
             ret |-> finished_id, panic |-> FALSE]

\* ret: <<id, name>>; panic: no current lookup, or an anonymous one
finish_named(lk) ==
    LET f == finish_current(lk) IN
    IF f.ret = None \/ f.ret[1].name = None
    THEN [lk |-> f.lk, ret |-> None, panic |-> TRUE]
    ELSE [lk |-> f.lk, ret |-> Some([id |-> f.ret[1].id, name |-> f.ret[1].name[1]]),
          panic |-> FALSE]

\* Lookup::add_subtable_break pushes a fresh empty subtable
AllLookups_add_subtable_break(lk) ==
    IF lk.current # None
    THEN [lk |-> [lk EXCEPT !.current[1].subtables = Append(@, EmptyMap)], ret |-> TRUE]
    ELSE [lk |-> lk, ret |-> FALSE]

NumLookups(lk) == Len(lk.gpos) + Len(lk.gsub) + (IF lk.current # None THEN 1 ELSE 0)

\* ------------------------------------------------------------------ lookup flags
\* LookupFlags (OpenType lookupFlag bits); from_bits_truncate keeps the defined bits
RIGHT_TO_LEFT == 1
IGNORE_BASE_GLYPHS == 2
IGNORE_LIGATURES == 4
IGNORE_MARKS == 8
USE_MARK_FILTERING_SET == 16
U16 == 65536

RECURSIVE BitOr(_, _)
BitOr(a, b) ==
    IF a = 0 THEN b
    ELSE IF b = 0 THEN a
    ELSE (IF a % 2 = 1 \/ b % 2 = 1 THEN 1 ELSE 0) + 2 * BitOr(a \div 2, b \div 2)

\* defined bits: 0x001F and the mark attachment class byte 0xFF00
from_bits_truncate(n) == (n % 32) + 256 * ((n \div 256) % 256)

\* GlyphClass::sort_and_dedupe: the canonical glyph set of a class
sort_and_dedupe(glyphs) == {glyphs[i] : i \in DOMAIN glyphs}

\* a resolve_mark_attach_class that numbers the classes from 0
resolve_mark_attach_class_from_zero(ids, glyphs) ==
    LET mark_set == sort_and_dedupe(glyphs) IN
    IF mark_set \in DOMAIN ids
    THEN [ids |-> ids, ret |-> ids[mark_set]]
    ELSE LET id == Cardinality(DOMAIN ids) % U16 IN
         [ids |-> MapInsert(ids, mark_set, id), ret |-> id]

\* ret: the class id; ids: mark_attach_class_id afterwards
resolve_mark_attach_class(ids, glyphs) ==
    LET mark_set == sort_and_dedupe(glyphs) IN
    IF mark_set \in DOMAIN ids
    THEN [ids |-> ids, ret |-> ids[mark_set]]
    ELSE LET id == (Cardinality(DOMAIN ids) + 1) % U16 IN
         [ids |-> MapInsert(ids, mark_set, id), ret |-> id]

\* entry(set).or_insert(len + 1)
resolve_mark_filter_set(sets, glyphs) ==
    LET set == sort_and_dedupe(glyphs)
        id == Cardinality(DOMAIN sets) + 1
    IN IF set \in DOMAIN sets
       THEN [sets |-> sets, ret |-> sets[set]]
       ELSE [sets |-> MapInsert(sets, set, id), ret |-> id]

\* the keyword loop of set_lookup_flag; st = [flags, mfs, attach, filters]
RECURSIVE flag_items(_, _, _)
flag_items(items, i, st) ==
    IF i > Len(items) THEN st
    ELSE LET it == items[i] IN
         flag_items(items, i + 1,
            CASE it.kw = "RightToLeft" -> [st EXCEPT !.flags = BitOr(@, RIGHT_TO_LEFT)]
              [] it.kw = "IgnoreBaseGlyphs" -> [st EXCEPT !.flags = BitOr(@, IGNORE_BASE_GLYPHS)]
              [] it.kw = "IgnoreLigatures" -> [st EXCEPT !.flags = BitOr(@, IGNORE_LIGATURES)]
              [] it.kw = "IgnoreMarks" -> [st EXCEPT !.flags = BitOr(@, IGNORE_MARKS)]
              [] it.kw = "MarkAttachmentType" ->
                    LET r == resolve_mark_attach_class(st.attach, it.cls) IN
                    [st EXCEPT !.flags = BitOr(@, from_bits_truncate((r.ret * 256) % U16)),
                               !.attach = r.ids]
              [] it.kw = "UseMarkFilteringSet" ->
                    LET r == resolve_mark_filter_set(st.filters, it.cls) IN
                    [st EXCEPT !.flags = BitOr(@, USE_MARK_FILTERING_SET),
                               !.mfs = Some(r.ret),
                               !.filters = r.sets])

\* a lookupflag statement: a number, or a sequence of keywords
FlagNumber(n) == [number |-> Some(n), items |-> << >>]
FlagKeywords(items) == [number |-> None, items |-> items]
Kw(kw) == [kw |-> kw, cls |-> << >>]
KwClass(kw, cls) == [kw |-> kw, cls |-> cls]

FlagStmts ==
    { FlagKeywords(<<Kw("IgnoreMarks")>>) }

\* ------------------------------------------------------------------ diagnostics
Diagnostic_error(message) == [severity |-> "error", message |-> message]
Diagnostic_warning(message) == [severity |-> "warning", message |-> message]
is_error(d) == d.severity = "error"

\* ------------------------------------------------------------------ FeatureKey
FeatureKey_for_feature(feature) == <<feature, SCRIPT_DFLT_TAG, LANG_DFLT_TAG>>
FeatureKey_script(key, s) == <<key[1], s, key[3]>>
FeatureKey_language(key, l) == <<key[1], key[2], l>>

\* a get that never finds the key
MapGet_absent(m, k) == None

MapGet(m, k) == IF k \in DOMAIN m THEN Some(m[k]) ELSE None

\* a binding that leaves out an id the list already holds
add_lookup_to_feature_dedup(feats, cls, lookup, feature) ==
    LET key == FeatureKey_for_feature(feature)
        keys == {FeatureKey_language(FeatureKey_script(key, sl[1]), sl[2]) : sl \in cls}
        old(k) == IF k \in DOMAIN feats THEN feats[k] ELSE << >>
    IN [k \in DOMAIN feats \cup keys |->
          IF k \in keys /\ \A i \in 1..Len(old(k)) : old(k)[i] # lookup
          THEN Append(old(k), lookup)
          ELSE old(k)]

\* features.entry(key).or_default().push(lookup) for each (script, lang) of cls
add_lookup_to_feature(feats, cls, lookup, feature) ==
    LET key == FeatureKey_for_feature(feature)
        keys == {FeatureKey_language(FeatureKey_script(key, sl[1]), sl[2]) : sl \in cls}
    IN [k \in DOMAIN feats \cup keys |->
          IF k \in keys
          THEN Append(IF k \in DOMAIN feats THEN feats[k] ELSE << >>, lookup)
          ELSE feats[k]]

\* ------------------------------------------------------------------ rule statements
\* GlyphOrClass: Null, Glyph(id), Class(ids)
NOTDEF == 0
GNull == [t |-> "Null", ids |-> << >>]
Glyph(id) == [t |-> "Glyph", ids |-> <<id>>]
Class(ids) == [t |-> "Class", ids |-> ids]

\* ValueRecord, of its fields xPlacement and xAdvance: with only xAdvance set, with
\* only xPlacement set, with none
XAdvance(n) == [xPlacement |-> None, xAdvance |-> Some(n)]
XPlacement(n) == [xPlacement |-> Some(n), xAdvance |-> None]
ValueRecord_default == [xPlacement |-> None, xAdvance |-> None]

\* a rule statement: rule is the typed::GsubStatement / GposStatement variant
Gsub1(target, replacement) ==
    [rule |-> "Gsub1", a |-> target, b |-> replacement,
     v1 |-> ValueRecord_default, v2 |-> ValueRecord_default]
Gpos1(target, value) ==
    [rule |-> "Gpos1", a |-> target, b |-> GNull, v1 |-> value, v2 |-> ValueRecord_default]
Gpos2(first, second, value1, value2) ==
    [rule |-> "Gpos2", a |-> first, b |-> second, v1 |-> value1, v2 |-> value2]
OtherRule ==
    [rule |-> "Other", a |-> GNull, b |-> GNull,
     v1 |-> ValueRecord_default, v2 |-> ValueRecord_default]

RuleStmts ==
    { Gsub1(Glyph(1), Glyph(2)),
      Gpos1(Glyph(1), XAdvance(100)),
      OtherRule }

RuleKind(stmt) ==
    CASE stmt.rule = "Gsub1" -> "GsubType1"
      [] stmt.rule = "Gpos1" -> "GposType1"
      [] stmt.rule = "Gpos2" -> "GposType2"
      [] OTHER -> "GposNode"

\* add_gsub_type_1 / add_gpos_type_1 / add_gpos_type_2_specific, called once per key:
\* the lookup afterwards; panic: "lookup mismatch" (the current lookup is of another kind)
RECURSIVE add_each(_, _, _, _, _)
add_each(lookup, kind, keys, values, i) ==
    IF i > Len(keys) THEN [lookup |-> lookup, panic |-> FALSE]
    ELSE IF lookup.kind # kind THEN [lookup |-> lookup, panic |-> TRUE]
    ELSE add_each(add_rule(lookup, keys[i], values[i]), kind, keys, values, i + 1)

Repeat(v, n) == [i \in 1..n |-> v]

\* the match of add_single_sub on the resolved target and replacement
add_single_sub(lookup, target, replace) ==
    LET n == Len(target.ids)
        ok(r) == [lookup |-> r.lookup, panic |-> r.panic, err |-> None]
        bad(msg) == [lookup |-> lookup, panic |-> FALSE, err |-> Some(Diagnostic_error(msg))]
    IN CASE target.t = "Null" -> bad("NULL is not a valid substitution target")
         [] target.t = "Glyph" /\ replace.t = "Class" -> bad("cannot sub glyph by glyphclass")
         [] target.t = "Class" /\ replace.t = "Class" /\ n # Len(replace.ids) ->
                bad("class has different length than target")
         [] OTHER ->
                ok(add_each(lookup, "GsubType1", target.ids,
                            CASE replace.t = "Null" -> Repeat(NOTDEF, n)
                              [] replace.t = "Glyph" -> Repeat(replace.ids[1], n)
                              [] OTHER -> replace.ids,
                            1))

add_single_pos(lookup, ids, record) ==
    LET r == add_each(lookup, "GposType1", ids.ids, Repeat(record, Len(ids.ids)), 1) IN
    [lookup |-> r.lookup, panic |-> r.panic, err |-> None]

\* for first in first_ids { for second in second_ids { ... } }
add_pair_pos(lookup, first_ids, second_ids, first_value, second_value) ==
    LET n1 == Len(first_ids.ids)
        n2 == Len(second_ids.ids)
        keys == [i \in 1..(n1 * n2) |->
                    <<first_ids.ids[((i - 1) \div n2) + 1], second_ids.ids[((i - 1) % n2) + 1]>>]
        r == add_each(lookup, "GposType2", keys,
                      Repeat(<<first_value, second_value>>, n1 * n2), 1)
    IN [lookup |-> r.lookup, panic |-> r.panic, err |-> None]

\* ------------------------------------------------------------------ CompilationCtx
VARIABLES
    errors,                 \* Vec<Diagnostic>
    features,               \* BTreeMap<FeatureKey, Vec<LookupId>>
    default_lang_systems,   \* HashSet<(Tag, Tag)>
    lookups,                \* AllLookups
    lookup_flags,           \* LookupFlags
    cur_mark_filter_set,    \* Option<FilterSetId>
    cur_language_systems,   \* HashSet<(Tag, Tag)>
    cur_feature_name,       \* Option<Tag>
    script,                 \* Option<Tag>
    mark_attach_class_id,   \* HashMap<GlyphClass, u16>
    mark_filter_sets,       \* HashMap<GlyphClass, FilterSetId>
    panicked,               \* a panic has ended the program
    pos,                    \* the walk's open blocks, innermost last
    block_empty,            \* the innermost open block has no statement yet
    op,                     \* history: the handler that ran last, with its arguments
    issued,                 \* history: every LookupId returned, with the lookup it was given to
    run,                    \* history: the rule statements since the last other statement
    s2,                     \* history: how far the walk so far follows scenario S2
    out,                    \* what the function called last returned (None: nothing yet)
    args,                   \* the arguments drawn for a function called on its own
    builder                 \* the lookup builder a caller is filling

ctxvars == <<errors, features, default_lang_systems, lookups, lookup_flags,
             cur_mark_filter_set, cur_language_systems, cur_feature_name, script,
             mark_attach_class_id, mark_filter_sets>>
vars == <<errors, features, default_lang_systems, lookups, lookup_flags,
          cur_mark_filter_set, cur_language_systems, cur_feature_name, script,
          mark_attach_class_id, mark_filter_sets, panicked, pos, block_empty,
          op, issued, run, s2, out, args, builder>>

Ctx ==
    [errors |-> errors, features |-> features,
     default_lang_systems |-> default_lang_systems, lookups |-> lookups,
     lookup_flags |-> lookup_flags, cur_mark_filter_set |-> cur_mark_filter_set,
     cur_language_systems |-> cur_language_systems,
     cur_feature_name |-> cur_feature_name, script |-> script,
     mark_attach_class_id |-> mark_attach_class_id,
     mark_filter_sets |-> mark_filter_sets]

\* CompilationCtx::new
CompilationCtx_new ==
    [errors |-> << >>, features |-> EmptyMap, default_lang_systems |-> {},
     lookups |-> AllLookups_default, lookup_flags |-> 0, cur_mark_filter_set |-> None,
     cur_language_systems |-> {}, cur_feature_name |-> None, script |-> None,
     mark_attach_class_id |-> EmptyMap, mark_filter_sets |-> EmptyMap]

\* What a handler returns: the context afterwards; panic; bound: the id it passed to
\* add_lookup_to_feature; fin: the id AllLookups returned for the lookup that was
\* current; nnl: the call of needs_new_lookup it made.
Ok(c) == [ctx |-> c, panic |-> FALSE, bound |-> None, fin |-> None, nnl |-> None]
Panicked(c) == [ctx |-> c, panic |-> TRUE, bound |-> None, fin |-> None, nnl |-> None]

\* an error that is not recorded
error_dropped(c, message) == c

error(c, message) == [c EXCEPT !.errors = Append(@, Diagnostic_error(message))]
warning(c, message) == [c EXCEPT !.errors = Append(@, Diagnostic_warning(message))]

bind(c, id, feature) ==
    [c EXCEPT !.features = add_lookup_to_feature(@, c.cur_language_systems, id, feature)]

reset_flags(c) == [c EXCEPT !.lookup_flags = 0, !.cur_mark_filter_set = None]

add_language_system(c, s, l) ==
    Ok([c EXCEPT !.default_lang_systems = @ \cup {<<s, l>>}])

\* start_feature seeding (DFLT, dflt) whatever the default language systems are
start_feature_default_only(c, feature_name) ==
    IF c.cur_language_systems # {} THEN Panicked(c)
    ELSE IF c.lookups.current # None THEN Panicked(c)
    ELSE Ok([c EXCEPT
                !.cur_language_systems = {<<SCRIPT_DFLT_TAG, LANG_DFLT_TAG>>},
                !.cur_feature_name = Some(feature_name),
                !.lookup_flags = 0,
                !.cur_mark_filter_set = None])

start_feature(c, feature_name) ==
    IF c.cur_language_systems # {} THEN Panicked(c)
    ELSE IF c.lookups.current # None THEN Panicked(c)
    ELSE Ok([c EXCEPT
                !.cur_language_systems =
                    IF c.default_lang_systems # {} THEN c.default_lang_systems
                    ELSE {<<SCRIPT_DFLT_TAG, LANG_DFLT_TAG>>},
                !.cur_feature_name = Some(feature_name),
                !.lookup_flags = 0,
                !.cur_mark_filter_set = None])

\* end_feature leaving cur_language_systems as it was
end_feature_keeping_systems(c) ==
    LET f == finish_current(c.lookups)
        c1 == [c EXCEPT !.lookups = f.lk]
        clear(x) == [x EXCEPT !.cur_feature_name = None,
                              !.lookup_flags = 0, !.cur_mark_filter_set = None]
    IN IF f.ret = None THEN Ok(clear(c1))
       ELSE IF f.ret[1].name # None \/ c.cur_feature_name = None THEN Panicked(c)
       ELSE [ctx |-> clear(bind(c1, f.ret[1].id, c.cur_feature_name[1])), panic |-> FALSE,
             bound |-> Some(f.ret[1].id), fin |-> Some(f.ret[1].id), nnl |-> None]

end_feature(c) ==
    LET f == finish_current(c.lookups)
        c1 == [c EXCEPT !.lookups = f.lk]
        clear(x) == [x EXCEPT !.cur_feature_name = None, !.cur_language_systems = {},
                              !.lookup_flags = 0, !.cur_mark_filter_set = None]
    IN IF f.ret = None THEN Ok(clear(c1))
       ELSE IF f.ret[1].name # None \/ c.cur_feature_name = None THEN Panicked(c)
       ELSE [ctx |-> clear(bind(c1, f.ret[1].id, c.cur_feature_name[1])), panic |-> FALSE,
             bound |-> Some(f.ret[1].id), fin |-> Some(f.ret[1].id), nnl |-> None]

start_lookup_block(c, name) ==
    LET c0 == IF c.cur_feature_name = Some(AALT_TAG)
              THEN error(c, "no lookups allowed in aalt") ELSE c
        f == finish_current(c0.lookups)
        c1 == [c0 EXCEPT !.lookups = f.lk]
        fl(x) == IF x.cur_feature_name = None THEN reset_flags(x) ELSE x
    IN IF f.ret = None THEN Ok(fl(c1))
       ELSE IF f.ret[1].name # None THEN Panicked(c)
       ELSE IF c.cur_feature_name # None
            THEN [ctx |-> fl(bind(c1, f.ret[1].id, c.cur_feature_name[1])), panic |-> FALSE,
                  bound |-> Some(f.ret[1].id), fin |-> Some(f.ret[1].id), nnl |-> None]
            ELSE [ctx |-> fl(c1), panic |-> FALSE,
                  bound |-> None, fin |-> Some(f.ret[1].id), nnl |-> None]

\* end_lookup_block resetting the flags inside a feature as well
end_lookup_block_resetting_always(c) ==
    LET f == finish_named(c.lookups)
        c1 == [c EXCEPT !.lookups = f.lk]
    IN IF f.panic THEN Panicked(c)
       ELSE IF c.cur_feature_name # None
            THEN [ctx |-> reset_flags(bind(c1, f.ret[1].id, c.cur_feature_name[1])),
                  panic |-> FALSE,
                  bound |-> Some(f.ret[1].id), fin |-> Some(f.ret[1].id), nnl |-> None]
            ELSE [ctx |-> reset_flags(c1), panic |-> FALSE,
                  bound |-> None, fin |-> Some(f.ret[1].id), nnl |-> None]

end_lookup_block(c) ==
    LET f == finish_named(c.lookups)
        c1 == [c EXCEPT !.lookups = f.lk]
    IN IF f.panic THEN Panicked(c)
       ELSE IF c.cur_feature_name # None
            THEN [ctx |-> bind(c1, f.ret[1].id, c.cur_feature_name[1]), panic |-> FALSE,
                  bound |-> Some(f.ret[1].id), fin |-> Some(f.ret[1].id), nnl |-> None]
            ELSE [ctx |-> reset_flags(c1), panic |-> FALSE,
                  bound |-> None, fin |-> Some(f.ret[1].id), nnl |-> None]

\* set_script_language binding the outgoing lookup under the new language system
set_script_language_binding_after(c, script_tag, language, exclude_dflt) ==
    IF c.cur_feature_name \in {Some(AALT_TAG), Some(SIZE_TAG)}
    THEN Ok(error(c, "language/script not allowed in feature"))
    ELSE IF c.cur_feature_name = None
    THEN Ok(error(c, "language/script only allowed in feature block"))
    ELSE LET feature == c.cur_feature_name[1]
             f == finish_current(c.lookups)
             dflt_key == FeatureKey_language(FeatureKey_for_feature(feature), language)
             real_key == FeatureKey_script(dflt_key, script_tag)
             wants_dflt == dflt_key[3] = "dflt" /\ ~exclude_dflt
             got == IF wants_dflt THEN MapGet(c.features, dflt_key) ELSE None
             lks == IF got # None THEN got[1] ELSE << >>
             c1 == [c EXCEPT !.lookups = f.lk,
                             !.features = MapInsert(@, real_key, lks),
                             !.cur_language_systems = {<<real_key[2], real_key[3]>>}]
         IN [ctx |-> IF f.ret # None THEN bind(c1, f.ret[1].id, feature) ELSE c1,
             panic |-> FALSE,
             bound |-> IF f.ret # None THEN Some(f.ret[1].id) ELSE None,
             fin |-> IF f.ret # None THEN Some(f.ret[1].id) ELSE None,
             nnl |-> None]

set_script_language(c, script_tag, language, exclude_dflt) ==
    IF c.cur_feature_name \in {Some(AALT_TAG), Some(SIZE_TAG)}
    THEN Ok(error(c, "language/script not allowed in feature"))
    ELSE IF c.cur_feature_name = None
    THEN Ok(error(c, "language/script only allowed in feature block"))
    ELSE LET feature == c.cur_feature_name[1]
             f == finish_current(c.lookups)
             c1 == IF f.ret # None
                   THEN bind([c EXCEPT !.lookups = f.lk], f.ret[1].id, feature)
                   ELSE c
             dflt_key == FeatureKey_language(FeatureKey_for_feature(feature), language)
             real_key == FeatureKey_script(dflt_key, script_tag)
             wants_dflt == dflt_key[3] = "dflt" /\ ~exclude_dflt
             got == IF wants_dflt THEN MapGet(c1.features, dflt_key) ELSE None
             lks == IF got # None THEN got[1] ELSE << >>
         IN [ctx |-> [c1 EXCEPT !.features = MapInsert(@, real_key, lks),
                                !.cur_language_systems = {<<real_key[2], real_key[3]>>}],
             panic |-> FALSE,
             bound |-> IF f.ret # None THEN Some(f.ret[1].id) ELSE None,
             fin |-> IF f.ret # None THEN Some(f.ret[1].id) ELSE None,
             nnl |-> None]

set_language(c, language, exclude_dflt, required) ==
    LET c0 == IF required THEN error(c, "required is not implemented") ELSE c
        script_tag == IF c.script # None THEN c.script[1] ELSE SCRIPT_DFLT_TAG
    IN set_script_language(c0, script_tag, language, exclude_dflt)

set_script(c, script_tag) ==
    set_script_language([c EXCEPT !.script = Some(script_tag)], script_tag,
                        LANG_DFLT_TAG, FALSE)

set_lookup_flag(c, node) ==
    IF node.number # None
    THEN Ok([c EXCEPT !.lookup_flags = from_bits_truncate(node.number[1])])
    ELSE LET st == flag_items(node.items, 1,
                      [flags |-> 0, mfs |-> c.cur_mark_filter_set,
                       attach |-> c.mark_attach_class_id, filters |-> c.mark_filter_sets])
         IN Ok([c EXCEPT !.lookup_flags = st.flags,
                         !.cur_mark_filter_set = st.mfs,
                         !.mark_attach_class_id = st.attach,
                         !.mark_filter_sets = st.filters])

add_subtable_break(c) ==
    Ok([c EXCEPT !.lookups = AllLookups_add_subtable_break(c.lookups).lk])

\* the context with the lookup of `kind` current; nnl records the call of needs_new_lookup
ensure_current_lookup_type(c, kind) ==
    LET need == needs_new_lookup(c.lookups, kind)
        nnl == Some([kind |-> kind,
                     cur |-> IF c.lookups.current # None
                             THEN Some(c.lookups.current[1].kind) ELSE None,
                     ret |-> need])
        none == [ctx |-> c, panic |-> TRUE, bound |-> None, fin |-> None, nnl |-> nnl]
    IN IF need
       THEN IF is_named(c.lookups) THEN none
            ELSE LET s == start_lookup(c.lookups, kind, None, c.lookup_flags,
                                       c.cur_mark_filter_set)
                     c1 == [c EXCEPT !.lookups = s.lk]
                 IN IF s.panic THEN none
                    ELSE IF s.ret = None
                    THEN [ctx |-> c1, panic |-> FALSE, bound |-> None, fin |-> None,
                          nnl |-> nnl]
                    ELSE IF c.cur_feature_name = None THEN none
                    ELSE [ctx |-> bind(c1, s.ret[1], c.cur_feature_name[1]),
                          panic |-> FALSE, bound |-> s.ret, fin |-> s.ret, nnl |-> nnl]
       ELSE IF c.lookups.current = None THEN none
       ELSE [ctx |-> c, panic |-> FALSE, bound |-> None, fin |-> None, nnl |-> nnl]

\* add_gsub_statement / add_gpos_statement
add_rule_statement(c, stmt) ==
    IF stmt.rule = "Other" THEN Ok(warning(c, "unimplemented rule type"))
    ELSE LET e == ensure_current_lookup_type(c, RuleKind(stmt)) IN
         IF e.panic THEN e
         ELSE LET lookup == e.ctx.lookups.current[1]
                  r == CASE stmt.rule = "Gsub1" -> add_single_sub(lookup, stmt.a, stmt.b)
                         [] stmt.rule = "Gpos1" -> add_single_pos(lookup, stmt.a, stmt.v1)
                         [] OTHER -> add_pair_pos(lookup, stmt.a, stmt.b, stmt.v1, stmt.v2)
                  c1 == [e.ctx EXCEPT !.lookups.current = Some(r.lookup)]
              IN [e EXCEPT !.panic = r.panic,
                           !.ctx = IF r.err # None
                                   THEN [c1 EXCEPT !.errors = Append(@, r.err[1])]
                                   ELSE c1]

resolve_lookup_ref(c, label) ==
    LET id == get_named(c.lookups, label) IN
    IF id = None THEN Panicked(c)
    ELSE IF c.cur_feature_name # None
    THEN [ctx |-> bind(c, id[1], c.cur_feature_name[1]), panic |-> FALSE,
          bound |-> id, fin |-> None, nnl |-> None]
    ELSE Ok(warning(c, "lookup reference outside of feature does nothing"))

\* ------------------------------------------------------------------ build
\* Tag's Ord is the byte order of its four bytes: the tags of this model, ascending
TagOrder == <<"DFLT", "TRK", "aalt", "dflt", "latn", "liga", "size">>
TagRank(t) == CHOOSE i \in 1..Len(TagOrder) : TagOrder[i] = t

\* derive(PartialOrd, Ord) on FeatureKey: feature, then script, then language
FeatureKey_lt(k1, k2) ==
    \/ TagRank(k1[1]) < TagRank(k2[1])
    \/ k1[1] = k2[1] /\ TagRank(k1[2]) < TagRank(k2[2])
    \/ k1[1] = k2[1] /\ k1[2] = k2[2] /\ TagRank(k1[3]) < TagRank(k2[3])

\* the keys of the BTreeMap in iteration order
RECURSIVE BTreeMap_keys(_)
BTreeMap_keys(S) ==
    IF S = {} THEN << >>
    ELSE LET first == CHOOSE k \in S : \A o \in S \ {k} : FeatureKey_lt(k, o)
         IN <<first>> \o BTreeMap_keys(S \ {first})

to_raw(id) == id[2]

PosSubBuilder_new(lks) == [lookups |-> lks, scripts |-> EmptyMap, features |-> EmptyMap]

\* add giving every call a fresh index, whether or not the (tag, lookups) pair is known
PosSubBuilder_add_fresh_index(b, key, ids) ==
    LET raw == [i \in 1..Len(ids) |-> to_raw(ids[i])]
        feat_key == <<key[1], raw>>
        idx == Cardinality(DOMAIN b.features) + (IF feat_key \in DOMAIN b.features THEN 1 ELSE 0)
        langs == IF key[2] \in DOMAIN b.scripts THEN b.scripts[key[2]] ELSE EmptyMap
        list == IF key[3] \in DOMAIN langs THEN langs[key[3]] ELSE << >>
    IN [b EXCEPT !.features = MapInsert(@, feat_key, idx),
                 !.scripts = MapInsert(@, key[2], MapInsert(langs, key[3], Append(list, idx)))]

\* features: (tag, raw lookup indices) -> feature index, taken in order of first use;
\* scripts: script -> language -> feature indices
PosSubBuilder_add(b, key, ids) ==
    LET raw == [i \in 1..Len(ids) |-> to_raw(ids[i])]
        feat_key == <<key[1], raw>>
        idx == IF feat_key \in DOMAIN b.features THEN b.features[feat_key]
               ELSE Cardinality(DOMAIN b.features)
        langs == IF key[2] \in DOMAIN b.scripts THEN b.scripts[key[2]] ELSE EmptyMap
        list == IF key[3] \in DOMAIN langs THEN langs[key[3]] ELSE << >>
    IN [b EXCEPT !.features = IF feat_key \in DOMAIN @ THEN @ ELSE MapInsert(@, feat_key, idx),
                 !.scripts = MapInsert(@, key[2], MapInsert(langs, key[3], Append(list, idx)))]

\* None without lookups; else the lookups, a Script record per script and the feature
\* list, each (tag, lookups) at its index
PosSubBuilder_build(b) ==
    IF b.lookups = << >> THEN None
    ELSE Some([lookups |-> b.lookups,
               scripts |-> [sc \in DOMAIN b.scripts |->
                   [default_language_system |->
                        IF LANG_DFLT_TAG \in DOMAIN b.scripts[sc]
                        THEN Some(b.scripts[sc][LANG_DFLT_TAG]) ELSE None,
                    language_systems |->
                        [l \in DOMAIN b.scripts[sc] \ {LANG_DFLT_TAG} |-> b.scripts[sc][l]]]],
               features |-> [i \in 1..Cardinality(DOMAIN b.features) |->
                   CHOOSE fk \in DOMAIN b.features : b.features[fk] = i - 1]])

\* the loop of make_gsub_gpos over the feature map, from the i-th key on
RECURSIVE split_features(_, _, _, _, _)
split_features(feats, keys, i, gpos_builder, gsub_builder) ==
    IF i > Len(keys) THEN [gpos |-> gpos_builder, gsub |-> gsub_builder]
    ELSE LET key == keys[i]
             feature_indices == feats[key]
             n == Len(feature_indices)
             at == {p \in 1..n : feature_indices[p][1] = "Gsub"}
             split_idx == IF at = {} THEN n
                          ELSE (CHOOSE p \in at : \A o \in at : p <= o) - 1
             gpos_idxes == SubSeq(feature_indices, 1, split_idx)
             gsub_idxes == SubSeq(feature_indices, split_idx + 1, n)
         IN split_features(feats, keys, i + 1,
                IF gpos_idxes # << >> THEN PosSubBuilder_add(gpos_builder, key, gpos_idxes)
                ELSE gpos_builder,
                IF gsub_idxes # << >> THEN PosSubBuilder_add(gsub_builder, key, gsub_idxes)
                ELSE gsub_builder)

make_gsub_gpos(c) ==
    LET b == split_features(c.features, BTreeMap_keys(DOMAIN c.features), 1,
                            PosSubBuilder_new(c.lookups.gpos),
                            PosSubBuilder_new(c.lookups.gsub))
    IN [gsub |-> PosSubBuilder_build(b.gsub), gpos |-> PosSubBuilder_build(b.gpos)]

Result_Ok(v) == <<"Ok", v>>
Result_Err(e) == <<"Err", e>>

\* a build that refuses on any diagnostic, warnings included
build_refusing_any(c) ==
    IF c.errors # << >>
    THEN Result_Err(c.errors)
    ELSE LET t == make_gsub_gpos(c) IN Result_Ok([gpos |-> t.gpos, gsub |-> t.gsub])

build(c) ==
    IF \E i \in 1..Len(c.errors) : is_error(c.errors[i])
    THEN Result_Err(c.errors)
    ELSE LET t == make_gsub_gpos(c) IN Result_Ok([gpos |-> t.gpos, gsub |-> t.gsub])

\* ------------------------------------------------------------------ steps
Sig(name, a, b, c) == [name |-> name, a |-> a, b |-> b, c |-> c]

\* scenario S2 of the specification, statement by statement
S2Prog ==
    << Sig("add_language_system", "latn", "dflt", FALSE),
       Sig("add_language_system", "latn", "TRK", FALSE),
       Sig("start_feature", "liga", "", FALSE),
       Sig("rule", "Gsub1", "Glyph", FALSE),
       Sig("set_script", "latn", "", FALSE),
       Sig("set_language", "TRK", "", TRUE),
       Sig("rule", "Gsub1", "Glyph", FALSE),
       Sig("end_feature", "", "", FALSE) >>

WithinBounds(c) ==
    /\ Len(c.errors) <= MaxErrors
    /\ NumLookups(c.lookups) <= MaxLookups
    /\ \A k \in DOMAIN c.features : Len(c.features[k]) <= MaxList

\* One handler has run and returned r: the context takes the values it left, or the
\* program has panicked; the history variables record the call.
\* rk: Some(kind) when the handler is a GSUB/GPOS rule of that kind.
Do(r, sig, rk) ==
    /\ ~panicked
    /\ out = None
    /\ UNCHANGED <<out, args, builder>>
    /\ r.panic \/ WithinBounds(r.ctx)
    /\ panicked' = r.panic
    /\ LET n == IF r.panic THEN Ctx ELSE r.ctx IN
       /\ errors' = n.errors
       /\ features' = n.features
       /\ default_lang_systems' = n.default_lang_systems
       /\ lookups' = n.lookups
       /\ lookup_flags' = n.lookup_flags
       /\ cur_mark_filter_set' = n.cur_mark_filter_set
       /\ cur_language_systems' = n.cur_language_systems
       /\ cur_feature_name' = n.cur_feature_name
       /\ script' = n.script
       /\ mark_attach_class_id' = n.mark_attach_class_id
       /\ mark_filter_sets' = n.mark_filter_sets
       /\ run' = IF rk # None
                 THEN [run EXCEPT !.kinds = Append(@, rk[1])]
                 ELSE [kinds |-> << >>, base |-> NumLookups(n.lookups),
                       clean |-> n.lookups.current = None]
    /\ op' = [name |-> sig.name, a |-> sig.a, b |-> sig.b, c |-> sig.c,
              bound |-> r.bound, nnl |-> r.nnl]
    /\ issued' = IF r.fin # None /\ ~r.panic
                 THEN MapInsert(issued, r.fin[1], lookups.current[1])
                 ELSE issued
    /\ s2' = IF s2 >= 0 /\ s2 < Len(S2Prog) /\ sig = S2Prog[s2 + 1] THEN s2 + 1 ELSE -1

Constructed ==
    /\ errors = CompilationCtx_new.errors
    /\ features = CompilationCtx_new.features
    /\ default_lang_systems = CompilationCtx_new.default_lang_systems
    /\ lookups = CompilationCtx_new.lookups
    /\ lookup_flags = CompilationCtx_new.lookup_flags
    /\ cur_mark_filter_set = CompilationCtx_new.cur_mark_filter_set
    /\ cur_language_systems = CompilationCtx_new.cur_language_systems
    /\ cur_feature_name = CompilationCtx_new.cur_feature_name
    /\ script = CompilationCtx_new.script
    /\ mark_attach_class_id = CompilationCtx_new.mark_attach_class_id
    /\ mark_filter_sets = CompilationCtx_new.mark_filter_sets
    /\ panicked = FALSE
    /\ pos = << >>
    /\ block_empty = TRUE
    /\ op = [name |-> "new", a |-> "", b |-> "", c |-> FALSE, bound |-> None, nnl |-> None]
    /\ issued = EmptyMap
    /\ run = [kinds |-> << >>, base |-> 0, clean |-> TRUE]
    /\ s2 = 0
    /\ out = None

Init ==
    /\ Constructed
    /\ args = None
    /\ builder = None

\* ------------------------------------------------------------------ compile(): the walk
AtTop == pos = << >>
InBlock == pos # << >>
InFeatureBlock == pos # << >> /\ pos[Len(pos)][1] = "feature"
InLookupBlock == pos # << >> /\ pos[Len(pos)][1] = "lookup"
Stmt == InBlock /\ UNCHANGED pos /\ block_empty' = FALSE

WalkLanguageSystem ==
    /\ AtTop
    /\ \E sl \in LangSysInputs :
          Do(add_language_system(Ctx, sl[1], sl[2]),
             Sig("add_language_system", sl[1], sl[2], FALSE), None)
    /\ UNCHANGED <<pos, block_empty>>

\* add_feature returns before start_feature for aalt
WalkFeatureAalt ==
    /\ AtTop
    /\ Do(Ok(error(Ctx, "aalt feature is unimplemented")),
          Sig("add_feature", AALT_TAG, "", FALSE), None)
    /\ UNCHANGED <<pos, block_empty>>

WalkFeatureStart ==
    /\ AtTop
    /\ \E tag \in FeatureTags \ {AALT_TAG} :
          /\ Do(start_feature(Ctx, tag), Sig("start_feature", tag, "", FALSE), None)
          /\ pos' = <<<<"feature", tag>>>>
    /\ block_empty' = TRUE

WalkFeatureEnd ==
    /\ InFeatureBlock
    /\ ~block_empty
    /\ Do(end_feature(Ctx), Sig("end_feature", "", "", FALSE), None)
    /\ pos' = << >>
    /\ block_empty' = TRUE

WalkLookupBlockStart ==
    /\ ~InLookupBlock
    /\ \E name \in LookupNames :
          /\ Do(start_lookup_block(Ctx, name), Sig("start_lookup_block", name, "", FALSE), None)
          /\ pos' = Append(pos, <<"lookup", name>>)
    /\ block_empty' = TRUE

WalkLookupBlockEnd ==
    /\ InLookupBlock
    /\ ~block_empty
    /\ Do(end_lookup_block(Ctx), Sig("end_lookup_block", pos[Len(pos)][2], "", FALSE), None)
    /\ pos' = SubSeq(pos, 1, Len(pos) - 1)
    /\ block_empty' = FALSE

WalkScript ==
    /\ Stmt
    /\ \E tag \in ScriptTags :
          Do(set_script(Ctx, tag), Sig("set_script", tag, "", FALSE), None)

WalkLanguage ==
    /\ Stmt
    /\ \E tag \in LangTags, exclude_dflt \in BOOLEAN, required \in BOOLEAN :
          Do(set_language(Ctx, tag, exclude_dflt, required),
             Sig("set_language", tag, IF required THEN "required" ELSE "", exclude_dflt), None)

WalkLookupFlag ==
    /\ Stmt
    /\ \E node \in FlagStmts :
          Do(set_lookup_flag(Ctx, node), Sig("set_lookup_flag", "", "", FALSE), None)

WalkSubtable ==
    /\ Stmt
    /\ Do(add_subtable_break(Ctx), Sig("add_subtable_break", "", "", FALSE), None)

\* the validation pass rejects a reference to an undefined lookup; the get_named
\* expect() is what the code does should one arrive
WalkLookupRef ==
    /\ Stmt
    /\ \E label \in LookupNames :
          Do(resolve_lookup_ref(Ctx, label), Sig("resolve_lookup_ref", label, "", FALSE), None)

WalkRule ==
    /\ Stmt
    /\ \E stmt \in RuleStmts :
          Do(add_rule_statement(Ctx, stmt), Sig("rule", stmt.rule, stmt.a.t, FALSE),
             IF stmt.rule = "Other" THEN None ELSE Some(RuleKind(stmt)))

\* pair positioning rules: `pos A B 100;` and `enum pos @A B -50;` with
\* @A = [A Aacute Agrave] (glyphs A = 1, B = 2, Aacute = 3, Agrave = 4)
PairRuleStmts ==
    { Gpos2(Glyph(1), Glyph(2), XAdvance(100), ValueRecord_default),
      Gpos2(Class(<<1, 3, 4>>), Glyph(2), XAdvance(-50), ValueRecord_default) }

WalkPairRule ==
    /\ Stmt
    /\ \E stmt \in PairRuleStmts :
          Do(add_rule_statement(Ctx, stmt), Sig("rule", stmt.rule, stmt.a.t, FALSE),
             Some(RuleKind(stmt)))

\* any other item: "unhandled top-level item" / "unhandled statement"
WalkUnhandled ==
    /\ Do(Ok(error(Ctx, "unhandled item")), Sig("unhandled", "", "", FALSE), None)
    /\ UNCHANGED pos
    /\ block_empty' = (block_empty /\ AtTop)

\* after the walk: build() on the context compile() returned
WalkBuild ==
    /\ AtTop
    /\ ~panicked
    /\ out = None
    /\ out' = Some(build(Ctx))
    /\ op' = [name |-> "build", a |-> "", b |-> "", c |-> FALSE, bound |-> None, nnl |-> None]
    /\ UNCHANGED <<ctxvars, panicked, pos, block_empty, issued, run, s2, args, builder>>

Next ==
    \/ WalkLanguageSystem
    \/ WalkFeatureAalt
    \/ WalkFeatureStart
    \/ WalkFeatureEnd
    \/ WalkLookupBlockStart
    \/ WalkLookupBlockEnd
    \/ WalkScript
    \/ WalkLanguage
    \/ WalkLookupFlag
    \/ WalkSubtable
    \/ WalkLookupRef
    \/ WalkRule
    \/ WalkPairRule
    \/ WalkUnhandled
    \/ WalkBuild

Spec == Init /\ [][Next]_vars

\* ------------------------------------------------------------------ AllLookups, called directly
\* The registry as a unit test drives it: any method, in any order.
MaxSubtables == 2   \* subtables of one lookup
NoWalk == UNCHANGED <<pos, block_empty>>

ctx_start_lookup(c, kind, name, flags) ==
    LET s == start_lookup(c.lookups, kind, name, flags, c.cur_mark_filter_set) IN
    [ctx |-> [c EXCEPT !.lookups = s.lk], panic |-> s.panic,
     bound |-> None, fin |-> s.ret, nnl |-> None]

ctx_finish_current(c) ==
    LET f == finish_current(c.lookups) IN
    [ctx |-> [c EXCEPT !.lookups = f.lk], panic |-> FALSE, bound |-> None,
     fin |-> IF f.ret # None THEN Some(f.ret[1].id) ELSE None, nnl |-> None]

ctx_finish_named(c) ==
    LET f == finish_named(c.lookups) IN
    [ctx |-> [c EXCEPT !.lookups = f.lk], panic |-> f.panic, bound |-> None,
     fin |-> IF f.ret # None THEN Some(f.ret[1].id) ELSE None, nnl |-> None]

ctx_needs_new_lookup(c, kind) ==
    [ctx |-> c, panic |-> FALSE, bound |-> None, fin |-> None,
     nnl |-> Some([kind |-> kind,
                   cur |-> IF c.lookups.current # None
                           THEN Some(c.lookups.current[1].kind) ELSE None,
                   ret |-> needs_new_lookup(c.lookups, kind)])]

OptNames == {None} \cup {Some(n) : n \in LookupNames}

LkStartLookup ==
    /\ \E kind \in LookupKinds, name \in OptNames, flags \in {0, IGNORE_MARKS} :
          Do(ctx_start_lookup(Ctx, kind, name, flags),
             Sig("start_lookup", kind, IF name # None THEN name[1] ELSE "", FALSE), None)
    /\ NoWalk

LkFinishCurrent ==
    /\ Do(ctx_finish_current(Ctx), Sig("finish_current", "", "", FALSE), None)
    /\ NoWalk

LkFinishNamed ==
    /\ Do(ctx_finish_named(Ctx), Sig("finish_named", "", "", FALSE), None)
    /\ NoWalk

LkAddSubtableBreak ==
    /\ lookups.current # None => Len(lookups.current[1].subtables) < MaxSubtables
    /\ Do(add_subtable_break(Ctx), Sig("add_subtable_break", "", "", FALSE), None)
    /\ NoWalk

LkNeedsNewLookup ==
    /\ \E kind \in LookupKinds :
          Do(ctx_needs_new_lookup(Ctx, kind), Sig("needs_new_lookup", kind, "", FALSE), None)
    /\ NoWalk

LookupsNext ==
    \/ LkStartLookup
    \/ LkFinishCurrent
    \/ LkFinishNamed
    \/ LkAddSubtableBreak
    \/ LkNeedsNewLookup

LookupsSpec == Init /\ [][LookupsNext]_vars

\* ------------------------------------------------------------------ the organizer, called directly
\* The methods of CompilationCtx as a unit test drives them through a feature block:
\* language systems, start_feature, then any method in any order until end_feature.
\* AllLookups::start_lookup is called directly with the context's flags, as at its
\* call site in ensure_current_lookup_type.
OrgFeatureTags == {"liga"}
OrgKinds == {"GsubType1", "GposType1"}
BeforeFeature == op.name \in {"new", "add_language_system"}
InFeature == cur_feature_name # None

OrgAddLanguageSystem ==
    /\ BeforeFeature
    /\ \E sl \in LangSysInputs :
          Do(add_language_system(Ctx, sl[1], sl[2]),
             Sig("add_language_system", sl[1], sl[2], FALSE), None)
    /\ NoWalk

OrgStartFeature ==
    /\ cur_feature_name = None /\ features = EmptyMap
    /\ \E tag \in OrgFeatureTags :
          Do(start_feature(Ctx, tag), Sig("start_feature", tag, "", FALSE), None)
    /\ NoWalk

OrgEndFeature ==
    /\ InFeature
    /\ Do(end_feature(Ctx), Sig("end_feature", "", "", FALSE), None)
    /\ NoWalk

OrgSetScript ==
    /\ InFeature
    /\ \E tag \in ScriptTags :
          Do(set_script(Ctx, tag), Sig("set_script", tag, "", FALSE), None)
    /\ NoWalk

OrgSetLanguage ==
    /\ InFeature
    /\ \E tag \in LangTags, exclude_dflt \in BOOLEAN :
          Do(set_language(Ctx, tag, exclude_dflt, FALSE),
             Sig("set_language", tag, "", exclude_dflt), None)
    /\ NoWalk

OrgRule ==
    /\ InFeature
    /\ \E stmt \in RuleStmts \ {OtherRule} :
          Do(add_rule_statement(Ctx, stmt), Sig("rule", stmt.rule, stmt.a.t, FALSE),
             Some(RuleKind(stmt)))
    /\ NoWalk

OrgStartLookup ==
    /\ InFeature
    /\ \E kind \in OrgKinds :
          Do(ctx_start_lookup(Ctx, kind, None, lookup_flags),
             Sig("start_lookup", kind, "", FALSE), None)
    /\ NoWalk

OrgNext ==
    \/ OrgAddLanguageSystem
    \/ OrgStartFeature
    \/ OrgEndFeature
    \/ OrgSetScript
    \/ OrgSetLanguage
    \/ OrgRule
    \/ OrgStartLookup

OrgSpec == Init /\ [][OrgNext]_vars

\* ------------------------------------------------------------------ named lookups, called directly
\* The lookup-block methods of CompilationCtx as a unit test drives them, at top level
\* and inside a feature block; the named lookup is opened by a direct call of
\* AllLookups::start_lookup(kind, Some(name), ..), which start_lookup_block leaves out.
NamedStartLookupBlock ==
    /\ \E name \in LookupNames :
          Do(start_lookup_block(Ctx, name), Sig("start_lookup_block", name, "", FALSE), None)
    /\ NoWalk

NamedStartLookup ==
    /\ \E kind \in OrgKinds, name \in OptNames :
          Do(ctx_start_lookup(Ctx, kind, name, lookup_flags),
             Sig("start_lookup", kind, IF name # None THEN name[1] ELSE "", FALSE), None)
    /\ NoWalk

NamedEndLookupBlock ==
    /\ Do(end_lookup_block(Ctx),
          Sig("end_lookup_block",
              IF lookups.current_name # None THEN lookups.current_name[1] ELSE "", "", FALSE),
          None)
    /\ NoWalk

NamedLookupRef ==
    /\ \E label \in LookupNames :
          Do(resolve_lookup_ref(Ctx, label), Sig("resolve_lookup_ref", label, "", FALSE), None)
    /\ NoWalk

NamedNext ==
    \/ OrgAddLanguageSystem
    \/ OrgStartFeature
    \/ OrgEndFeature
    \/ NamedStartLookupBlock
    \/ NamedStartLookup
    \/ NamedEndLookupBlock
    \/ NamedLookupRef

NamedSpec == Init /\ [][NamedNext]_vars

\* ------------------------------------------------------------------ glyph ranges
\* A token's text is its sequence of bytes. Ranges over a text are half-open and
\* counted from 0 as in the code: [start, end).
is_ascii_digit(b) == b \in 48..57
is_ascii_alphabetic(b) == b \in 65..90 \/ b \in 97..122

RECURSIVE digits_value(_, _, _)
digits_value(text, i, acc) ==
    IF i > Len(text) THEN acc ELSE digits_value(text, i + 1, 10 * acc + (text[i] - 48))

\* str::parse::<u32>: an optional '+', then one or more digits; None for Err.
\* A text of at most MaxNameLen digits is below u32::MAX, so the overflow error of
\* parse cannot occur on the texts drawn here.
parse_u32(text) ==
    LET body == IF text # << >> /\ text[1] = 43 THEN Tail(text) ELSE text IN
    IF body = << >> \/ \E i \in 1..Len(body) : ~is_ascii_digit(body[i]) THEN None
    ELSE Some(digits_value(body, 1, 0))

RECURSIVE to_digits(_)
to_digits(val) ==
    IF val < 10 THEN <<48 + val>> ELSE Append(to_digits(val \div 10), 48 + (val % 10))

\* write!("{:0width$}", val): the decimal digits, zero-padded on the left to width
format_width(val, width) ==
    LET d == to_digits(val) IN
    IF Len(d) >= width THEN d ELSE [i \in 1..(width - Len(d)) |-> 48] \o d

\* String::replace_range(range, with)
replace_range(text, range, with) ==
    SubSeq(text, 1, range.start) \o with \o SubSeq(text, range.end + 1, Len(text))

\* &text[range]
slice(text, range) == SubSeq(text, range.start + 1, range.end)

RECURSIVE expand_front(_, _)
expand_front(one, front) ==
    IF front > 0 /\ is_ascii_digit(one[front]) THEN expand_front(one, front - 1) ELSE front

RECURSIVE expand_back(_, _)
expand_back(one, back) ==
    IF back < Len(one) /\ is_ascii_digit(one[back + 1]) THEN expand_back(one, back + 1)
    ELSE back

get_diff_range(one, two) ==
    LET n == Len(one)
        front == Cardinality({i \in 1..n : \A j \in 1..i : one[j] = two[j]})
        eq_back == Cardinality({i \in 1..n : \A j \in 1..i : one[n + 1 - j] = two[n + 1 - j]})
        back == n - eq_back
    IN IF back < front THEN [start |-> 0, end |-> 0]
       ELSE [start |-> expand_front(one, front), end |-> expand_back(one, back)]

\* an alpha_range that stops before the end letter
alpha_range_exclusive(start, end, sub_range) ==
    LET start_char == start[sub_range.start + 1]
        end_char == end[sub_range.start + 1]
    IN [i \in 1..(end_char - start_char) |->
           [start EXCEPT ![sub_range.start + 1] = start_char + i - 1]]

\* the names alpha_range hands to the callback, in order
alpha_range(start, end, sub_range) ==
    LET start_char == start[sub_range.start + 1]
        end_char == end[sub_range.start + 1]
    IN [i \in 1..(end_char - start_char + 1) |->
           [start EXCEPT ![sub_range.start + 1] = start_char + i - 1]]

\* the names num_range hands to the callback, in order; sub_range is a Range<u32>
num_range(start, sub_range, text_range) ==
    LET width == text_range.end - text_range.start IN
    [i \in 1..(sub_range.end - sub_range.start) |->
        replace_range(start, text_range, format_width(sub_range.start + i - 1, width))]

\* ret: "Ok" or "Err"; calls: the arguments of the callback's calls, in order
Range_Ok(calls) == [ret |-> "Ok", calls |-> calls]
Range_Err == [ret |-> "Err", calls |-> << >>]

\* a cid_range that stops before the end
cid_range_exclusive(start, end) ==
    LET start_cid == parse_u32(start)[1]
        end_cid == parse_u32(end)[1]
    IN IF start_cid >= end_cid THEN Range_Err
       ELSE Range_Ok([i \in 1..(end_cid - start_cid) |-> start_cid + i - 1])

cid_range(start, end) ==
    LET start_cid == parse_u32(start)[1]
        end_cid == parse_u32(end)[1]
    IN IF start_cid >= end_cid THEN Range_Err
       ELSE Range_Ok([i \in 1..(end_cid - start_cid + 1) |-> start_cid + i - 1])

\* a named_range that does not compare the two bytes of a one-byte difference
named_range_unordered(start, end) ==
    IF Len(start) # Len(end) THEN Range_Err
    ELSE LET diff_range == get_diff_range(start, end)
             single == diff_range.end - diff_range.start = 1
             one_byte == start[diff_range.start + 1]
             two_byte == end[diff_range.start + 1]
             one == parse_u32(slice(start, diff_range))
             two == parse_u32(slice(end, diff_range))
         IN IF /\ single
               /\ is_ascii_alphabetic(one_byte) /\ is_ascii_alphabetic(two_byte)
               /\ (one_byte > 90) = (two_byte > 90)
            THEN Range_Ok(alpha_range(start, end, diff_range))
            ELSE IF one # None /\ two # None /\ one[1] < two[1]
            THEN Range_Ok(num_range(start, [start |-> one[1], end |-> two[1]], diff_range))
            ELSE Range_Err

named_range(start, end) ==
    IF Len(start) # Len(end) THEN Range_Err
    ELSE LET diff_range == get_diff_range(start, end)
             single == diff_range.end - diff_range.start = 1
             one_byte == start[diff_range.start + 1]
             two_byte == end[diff_range.start + 1]
             one == parse_u32(slice(start, diff_range))
             two == parse_u32(slice(end, diff_range))
         IN IF single /\ one_byte >= two_byte THEN Range_Err
            ELSE IF /\ single
                    /\ is_ascii_alphabetic(one_byte) /\ is_ascii_alphabetic(two_byte)
                    /\ (one_byte > 90) = (two_byte > 90)
            THEN Range_Ok(alpha_range(start, end, diff_range))
            ELSE IF one # None /\ two # None /\ one[1] < two[1]
            THEN Range_Ok(num_range(start, [start |-> one[1], end |-> two[1]], diff_range))
            ELSE Range_Err

\* a token: its kind and its text
Token(kind, text) == [kind |-> kind, text |-> text]

\* the test helper glyph_range: the GlyphIdents of the range, or an error
glyph_range(start, end) ==
    CASE start.kind = "Cid" /\ end.kind = "Cid" ->
            LET r == cid_range(start.text, end.text) IN
            IF r.ret = "Err" THEN Result_Err("cid_range")
            ELSE Result_Ok([i \in 1..Len(r.calls) |-> <<"Cid", r.calls[i]>>])
      [] start.kind = "GlyphName" /\ end.kind = "GlyphName" ->
            LET r == named_range(start.text, end.text) IN
            IF r.ret = "Err" THEN Result_Err("named_range")
            ELSE Result_Ok([i \in 1..Len(r.calls) |-> <<"Name", r.calls[i]>>])
      [] OTHER -> Result_Err("Invalid glyph range")

\* ------------------------------------------------------------------ glyph ranges, called directly
\* The range functions as the unit tests call them: on two tokens, once.
MaxNameLen == 3   \* bytes of a token's text
NameBytes == {48, 49, 65, 67, 97}       \* '0' '1' 'A' 'C' 'a'
NameFirstBytes == {65, 67, 97}          \* a glyph name does not start with a digit
CidBytes == {48, 49}
Texts(bytes, n) == UNION {[1..k -> bytes] : k \in 1..n}
GlyphNameTokens ==
    {Token("GlyphName", t) : t \in {x \in Texts(NameBytes, MaxNameLen) : x[1] \in NameFirstBytes}}
CidTokens == {Token("Cid", t) : t \in Texts(CidBytes, MaxNameLen)}

RangeInit ==
    /\ Constructed
    /\ args \in {Some(<<t1, t2>>) : t1 \in GlyphNameTokens \cup CidTokens,
                                    t2 \in GlyphNameTokens \cup CidTokens}
    /\ builder = None

Called(name, result) ==
    /\ out = None
    /\ out' = Some(result)
    /\ op' = [name |-> name, a |-> "", b |-> "", c |-> FALSE, bound |-> None, nnl |-> None]
    /\ UNCHANGED <<ctxvars, panicked, pos, block_empty, issued, run, s2, args, builder>>

CallCidRange ==
    /\ args[1][1].kind = "Cid" /\ args[1][2].kind = "Cid"
    /\ Called("cid_range", cid_range(args[1][1].text, args[1][2].text))

CallNamedRange ==
    /\ args[1][1].kind = "GlyphName" /\ args[1][2].kind = "GlyphName"
    /\ Called("named_range", named_range(args[1][1].text, args[1][2].text))

CallGlyphRange ==
    Called("glyph_range", glyph_range(args[1][1], args[1][2]))

RangeNext ==
    \/ CallCidRange
    \/ CallNamedRange
    \/ CallGlyphRange

RangeSpec == RangeInit /\ [][RangeNext]_vars

\* ------------------------------------------------------------------ lookupflag, called directly
\* set_lookup_flag on a fresh context, statement after statement. The glyph classes
\* are numbered in order of first use: class n holds the glyphs 0 and n, and a class
\* not used so far is the next in number. A statement names the next class, the
\* latest, or one of the first VariantClasses classes; these are also written in
\* another order with a repeated glyph, and with another keyword before.
MaxClasses == 256       \* distinct glyph classes used with MarkAttachmentType
VariantClasses == 2     \* classes also written as [n 0 n] and after IgnoreMarks
FlagNumbers == {0, 8}   \* lookupflag <number>;

ClassLists(n) == IF n <= VariantClasses THEN {<<0, n>>, <<n, 0, n>>} ELSE {<<0, n>>}

KeywordsBefore(n) == IF n <= VariantClasses THEN {<< >>, <<Kw("IgnoreMarks")>>} ELSE {<< >>}

FlagMarkAttachmentType ==
    /\ LET used == Cardinality(DOMAIN mark_attach_class_id)
           last == IF used < MaxClasses THEN used + 1 ELSE MaxClasses
           first == IF last < VariantClasses THEN last ELSE VariantClasses
       IN \E n \in (1..first) \cup {m \in {used, last} : m >= 1} :
             \E cls \in ClassLists(n), kws \in KeywordsBefore(n) :
                Do(set_lookup_flag(Ctx, FlagKeywords(kws \o <<KwClass("MarkAttachmentType", cls)>>)),
                   Sig("set_lookup_flag", cls, kws, FALSE), None)
    /\ NoWalk

FlagNumberStmt ==
    /\ \E n \in FlagNumbers :
          Do(set_lookup_flag(Ctx, FlagNumber(n)), Sig("set_lookup_flag", n, << >>, TRUE), None)
    /\ NoWalk

FlagNext ==
    \/ FlagMarkAttachmentType
    \/ FlagNumberStmt

FlagSpec == Init /\ [][FlagNext]_vars

\* ------------------------------------------------------------------ PairPosBuilder
\* pairs: GlyphPairPosBuilder, a map glyph1 -> (glyph2 -> (record1, record2));
\* classes: ClassPairPosBuilder, a vector of ClassPairPosSubtable
PairPosBuilder_default == [pairs |-> EmptyMap, classes |-> << >>]

\* ClassDefBuilder2 as the set of its classes: a class is accepted when every glyph
\* keeps a single class
ClassDefBuilder2_can_add(classdef, cls) ==
    cls \in classdef \/ \A c \in classdef : c \cap cls = {}

ClassDefBuilder2_checked_add(classdef, cls) == classdef \cup {cls}

ClassPairPosSubtable_default == [items |-> EmptyMap, classdef_1 |-> {}, classdef_2 |-> {}]

ClassPairPosSubtable_can_add(sub, class1, class2) ==
    /\ ClassDefBuilder2_can_add(sub.classdef_1, class1)
    /\ ClassDefBuilder2_can_add(sub.classdef_2, class2)

\* an add that keeps the records a class pair already has
ClassPairPosSubtable_add_first_wins(sub, class1, class2, record1, record2) ==
    LET row == IF class1 \in DOMAIN sub.items THEN sub.items[class1] ELSE EmptyMap IN
    [items |-> MapInsert(sub.items, class1,
                         IF class2 \in DOMAIN row THEN row
                         ELSE MapInsert(row, class2, <<record1, record2>>)),
     classdef_1 |-> ClassDefBuilder2_checked_add(sub.classdef_1, class1),
     classdef_2 |-> ClassDefBuilder2_checked_add(sub.classdef_2, class2)]

\* items.entry(class1).or_default().insert(class2, (record1, record2))
ClassPairPosSubtable_add(sub, class1, class2, record1, record2) ==
    LET row == IF class1 \in DOMAIN sub.items THEN sub.items[class1] ELSE EmptyMap IN
    [items |-> MapInsert(sub.items, class1, MapInsert(row, class2, <<record1, record2>>)),
     classdef_1 |-> ClassDefBuilder2_checked_add(sub.classdef_1, class1),
     classdef_2 |-> ClassDefBuilder2_checked_add(sub.classdef_2, class2)]

\* an insert that extends the latest subtable whenever there is one
ClassPairPosBuilder_insert_into_last(subs, class1, record1, class2, record2) ==
    LET pushed == IF Len(subs) > 0 THEN subs ELSE Append(subs, ClassPairPosSubtable_default)
    IN [pushed EXCEPT ![Len(pushed)] =
           ClassPairPosSubtable_add(@, class1, class2, record1, record2)]

ClassPairPosBuilder_insert(subs, class1, record1, class2, record2) ==
    LET n == Len(subs)
        pushed == IF n > 0 /\ ClassPairPosSubtable_can_add(subs[n], class1, class2)
                  THEN subs
                  ELSE Append(subs, ClassPairPosSubtable_default)
        m == Len(pushed)
    IN [pushed EXCEPT ![m] = ClassPairPosSubtable_add(@, class1, class2, record1, record2)]

PairPosBuilder_is_empty(b) == b.pairs = EmptyMap /\ b.classes = << >>

\* pairs.0.values().map(|vals| vals.len()).sum()
RECURSIVE sum_vals_len(_, _)
sum_vals_len(m, keys) ==
    IF keys = {} THEN 0
    ELSE LET k == CHOOSE x \in keys : TRUE IN
         Cardinality(DOMAIN m[k]) + sum_vals_len(m, keys \ {k})

\* classes.0.iter().map(|sub| sub.items.values().len()).sum()
RECURSIVE sum_items_values_len(_, _)
sum_items_values_len(subs, i) ==
    IF i > Len(subs) THEN 0
    ELSE Cardinality(DOMAIN subs[i].items) + sum_items_values_len(subs, i + 1)

PairPosBuilder_len(b) ==
    sum_vals_len(b.pairs, DOMAIN b.pairs) + sum_items_values_len(b.classes, 1)

\* an insert_pair that overwrites: entry(glyph2) then insert
insert_pair_last_wins(b, glyph1, record1, glyph2, record2) ==
    LET row == IF glyph1 \in DOMAIN b.pairs THEN b.pairs[glyph1] ELSE EmptyMap IN
    [b EXCEPT !.pairs = MapInsert(@, glyph1, MapInsert(row, glyph2, <<record1, record2>>))]

\* pairs.0.entry(glyph1).or_default().entry(glyph2).or_insert((record1, record2))
insert_pair(b, glyph1, record1, glyph2, record2) ==
    LET row == IF glyph1 \in DOMAIN b.pairs THEN b.pairs[glyph1] ELSE EmptyMap
        kept == IF glyph2 \in DOMAIN row THEN row
                ELSE MapInsert(row, glyph2, <<record1, record2>>)
    IN [b EXCEPT !.pairs = MapInsert(@, glyph1, kept)]

insert_classes(b, class1, record1, class2, record2) ==
    [b EXCEPT !.classes = ClassPairPosBuilder_insert(@, class1, record1, class2, record2)]

\* ValueRecord::format: the fields the record holds (X_PLACEMENT is 0x0001, X_ADVANCE
\* is 0x0004)
ValueRecord_format(v) ==
    (IF v.xPlacement # None THEN 1 ELSE 0) + (IF v.xAdvance # None THEN 4 ELSE 0)

\* the numbers of a set in increasing order (BTreeMap iteration)
RECURSIVE sorted(_)
sorted(S) ==
    IF S = {} THEN << >>
    ELSE LET lo == CHOOSE x \in S : \A y \in S : x <= y IN <<lo>> \o sorted(S \ {lo})

\* GlyphPairPosBuilder::build: one PairPos format 1 per pair of value formats, in
\* the order of the formats; coverage: the first glyphs, pair_sets: their records
GlyphPairPosBuilder_build(pairs) ==
    LET format(g1, g2) ==
            ValueRecord_format(pairs[g1][g2][1]) * U16 + ValueRecord_format(pairs[g1][g2][2])
        formats == sorted(UNION {{format(g1, g2) : g2 \in DOMAIN pairs[g1]} :
                                    g1 \in DOMAIN pairs})
        table(f) ==
            LET firsts == sorted({g1 \in DOMAIN pairs :
                                     \E g2 \in DOMAIN pairs[g1] : format(g1, g2) = f})
                seconds(g1) == sorted({g2 \in DOMAIN pairs[g1] : format(g1, g2) = f})
            IN [coverage |-> firsts,
                pair_sets |-> [i \in 1..Len(firsts) |->
                                 [j \in 1..Len(seconds(firsts[i])) |->
                                    LET g2 == seconds(firsts[i])[j] IN
                                    [second_glyph |-> g2,
                                     value_record1 |-> pairs[firsts[i]][g2][1],
                                     value_record2 |-> pairs[firsts[i]][g2][2]]]]]
    IN [t \in 1..Len(formats) |-> table(formats[t])]

\* ------------------------------------------------------------------ PairPosBuilder, called directly
\* A PairPosBuilder is filled by insert_pair and insert_classes in any order, and then
\* asked for len() and is_empty(), or its glyph pairs are built. args is the list of
\* the inserts made.
MaxInserts == 3          \* inserts into one builder
PairGlyphs == {1, 2}
PairClasses == {{1}, {2}, {1, 2}}
PairRecords == { <<XAdvance(100), ValueRecord_default>>, <<ValueRecord_default, XAdvance(-50)>> }

PairInit ==
    /\ Constructed
    /\ args = Some(<< >>)
    /\ builder = Some(PairPosBuilder_default)

PairCall(name, b, log, result) ==
    /\ out = None
    /\ builder' = Some(b)
    /\ args' = Some(log)
    /\ out' = result
    /\ op' = [name |-> name, a |-> "", b |-> "", c |-> FALSE, bound |-> None, nnl |-> None]
    /\ UNCHANGED <<ctxvars, panicked, pos, block_empty, issued, run, s2>>

PairInsertPair ==
    /\ Len(args[1]) < MaxInserts
    /\ \E g1 \in PairGlyphs, g2 \in PairGlyphs, r \in PairRecords :
          PairCall("insert_pair", insert_pair(builder[1], g1, r[1], g2, r[2]),
                   Append(args[1], [fn |-> "insert_pair", one |-> g1, two |-> g2,
                                    record1 |-> r[1], record2 |-> r[2]]),
                   None)

PairInsertClasses ==
    /\ Len(args[1]) < MaxInserts
    /\ \E c1 \in PairClasses, c2 \in PairClasses :
          PairCall("insert_classes",
                   insert_classes(builder[1], c1, XAdvance(100), c2, ValueRecord_default),
                   Append(args[1], [fn |-> "insert_classes", one |-> c1, two |-> c2,
                                    record1 |-> XAdvance(100), record2 |-> ValueRecord_default]),
                   None)

PairLen ==
    PairCall("len", builder[1], args[1],
             Some([len |-> PairPosBuilder_len(builder[1]),
                   is_empty |-> PairPosBuilder_is_empty(builder[1])]))

PairBuild ==
    PairCall("build", builder[1], args[1], Some(GlyphPairPosBuilder_build(builder[1].pairs)))

PairNext ==
    \/ PairInsertPair
    \/ PairInsertClasses
    \/ PairLen
    \/ PairBuild

PairSpec == PairInit /\ [][PairNext]_vars

\* ------------------------------------------------------------------ SingleSubBuilder
\* items: a map target -> (replacement, PossibleSingleSubFormat); the format is
\* <<"Delta", d>> or <<"Format2">>
SingleSubBuilder_default == [items |-> EmptyMap]

\* i16::try_from(i32)
i16_try_from(n) == IF -32768 <= n /\ n <= 32767 THEN Some(n) ELSE None

\* an insert whose delta is cast to i16 (wrapping) instead of converted
SingleSubBuilder_insert_wrapping(b, target, replacement) ==
    LET delta == ((replacement - target + 32768) % 65536) - 32768 IN
    [b EXCEPT !.items = MapInsert(@, target, <<replacement, <<"Delta", delta>> >>)]

\* an insert that keeps the replacement a target already has
SingleSubBuilder_insert_first_wins(b, target, replacement) ==
    IF target \in DOMAIN b.items THEN b
    ELSE LET delta == i16_try_from(replacement - target)
             format == IF delta # None THEN <<"Delta", delta[1]>> ELSE <<"Format2">>
         IN [b EXCEPT !.items = MapInsert(@, target, <<replacement, format>>)]

SingleSubBuilder_insert(b, target, replacement) ==
    LET delta == i16_try_from(replacement - target)
        format == IF delta # None THEN <<"Delta", delta[1]>> ELSE <<"Format2">>
    IN [b EXCEPT !.items = MapInsert(@, target, <<replacement, format>>)]

\* COST_OF_EXTRA_SUB1F1_SUBTABLE / GlyphId16::RAW_BYTE_LEN = 12 / 2
N_GLYPHS_TO_JUSTIFY_EXTRA_SUB1F1 == 6

\* SubtableMap::from_builder: for (g1, (g2, delta)) in builder.items, in key order
RECURSIVE from_builder(_, _, _, _)
from_builder(items, keys, i, this) ==
    IF i > Len(keys) THEN this
    ELSE LET g1 == keys[i]
             g2 == items[g1][1]
             delta == items[g1][2]
         IN from_builder(items, keys, i + 1,
               IF delta[1] = "Delta"
               THEN LET d == delta[2]
                        pairs == IF d \in DOMAIN this.format1 THEN this.format1[d] ELSE << >>
                    IN [this EXCEPT !.format1 = MapInsert(@, d, Append(pairs, <<g1, g2>>))]
               ELSE [this EXCEPT !.format2 = Append(@, <<g1, g2>>)])

SubtableMap_len(this) ==
    Cardinality(DOMAIN this.format1) + (IF this.format2 # << >> THEN 1 ELSE 0)

\* format1.retain(..): the small groups are moved to format2, in order of delta
RECURSIVE retain(_, _, _)
retain(this, deltas, i) ==
    IF i > Len(deltas) THEN this
    ELSE LET pairs == this.format1[deltas[i]] IN
         retain(IF Len(pairs) < N_GLYPHS_TO_JUSTIFY_EXTRA_SUB1F1
                THEN [format1 |-> [d \in DOMAIN this.format1 \ {deltas[i]} |-> this.format1[d]],
                      format2 |-> this.format2 \o pairs]
                ELSE this,
                deltas, i + 1)

\* a reduce that merges no group
SubtableMap_reduce_nothing(this) == this

SubtableMap_reduce(this) ==
    IF SubtableMap_len(this) <= 1 THEN this
    ELSE retain(this, sorted(DOMAIN this.format1), 1)

\* sort_unstable on (g1, g2) tuples
pair_le(a, b) == a[1] < b[1] \/ (a[1] = b[1] /\ a[2] <= b[2])

RECURSIVE sort_unstable(_)
sort_unstable(pairs) ==
    IF pairs = << >> THEN << >>
    ELSE LET i == CHOOSE k \in 1..Len(pairs) : \A j \in 1..Len(pairs) : pair_le(pairs[k], pairs[j])
         IN <<pairs[i]>> \o sort_unstable(SubSeq(pairs, 1, i - 1) \o SubSeq(pairs, i + 1, Len(pairs)))

SingleSubst_format_1(pairs, delta) ==
    [format |-> 1, coverage |-> [i \in 1..Len(pairs) |-> pairs[i][1]], delta |-> delta,
     substitutes |-> << >>]

SingleSubst_format_2(pairs) ==
    [format |-> 2, coverage |-> [i \in 1..Len(pairs) |-> pairs[i][1]], delta |-> 0,
     substitutes |-> [i \in 1..Len(pairs) |-> pairs[i][2]]]

SubtableMap_build(this) ==
    LET deltas == sorted(DOMAIN this.format1) IN
    (IF this.format2 # << >> THEN <<SingleSubst_format_2(sort_unstable(this.format2))>> ELSE << >>)
    \o [i \in 1..Len(deltas) |-> SingleSubst_format_1(this.format1[deltas[i]], deltas[i])]

SingleSubBuilder_build(b) ==
    LET map == from_builder(b.items, sorted(DOMAIN b.items), 1,
                            [format1 |-> EmptyMap, format2 |-> << >>])
    IN SubtableMap_build(SubtableMap_reduce(map))

\* ------------------------------------------------------------------ SingleSubBuilder, called directly
\* A builder is filled by insert in any order and then built; args holds, for every
\* target inserted, the replacement of its last insert. The pairs drawn: a run
\* of RunLen targets with replacement target + 10, the first ShortRun of them also with
\* target + 20, and pairs at the edges of the i16 range of the delta.
RunLen == 7
ShortRun == 2
EdgePairs == { <<0, 32767>>, <<0, 32768>>, <<32768, 0>>, <<32769, 0>>, <<65535, 0>> }
SubPairs ==
    {<<t, t + 10>> : t \in 0..(RunLen - 1)} \cup {<<t, t + 20>> : t \in 0..(ShortRun - 1)}
    \cup EdgePairs

SubInit ==
    /\ Constructed
    /\ args = Some(EmptyMap)
    /\ builder = Some(SingleSubBuilder_default)

SubCall(name, b, result, last) ==
    /\ out = None
    /\ builder' = Some(b)
    /\ out' = result
    /\ args' = Some(last)
    /\ op' = [name |-> name, a |-> "", b |-> "", c |-> FALSE, bound |-> None, nnl |-> None]
    /\ UNCHANGED <<ctxvars, panicked, pos, block_empty, issued, run, s2>>

SubInsert ==
    \E pair \in SubPairs :
       SubCall("insert", SingleSubBuilder_insert(builder[1], pair[1], pair[2]), None,
               MapInsert(args[1], pair[1], pair[2]))

SubBuild ==
    SubCall("build", builder[1], Some(SingleSubBuilder_build(builder[1])), args[1])

SubNext ==
    \/ SubInsert
    \/ SubBuild

SubSpec == SubInit /\ [][SubNext]_vars

\* ------------------------------------------------------------------ mark builders
\* MarkList: glyphs, a map glyph -> (class id, anchor); classes, a map class name -> id
MarkList_default == [glyphs |-> EmptyMap, classes |-> EmptyMap]

\* insert numbering the classes from 1
MarkList_insert_from_one(marks, glyph, class, anchor) ==
    LET next_id == Cardinality(DOMAIN marks.classes) + 1
        classes == IF class \in DOMAIN marks.classes THEN marks.classes
                   ELSE MapInsert(marks.classes, class, next_id)
        id == classes[class]
    IN [marks |-> [glyphs |-> MapInsert(marks.glyphs, glyph, <<id, anchor>>),
                   classes |-> classes],
        ret |-> Result_Ok(id)]

\* MarkList::insert. The ids of `classes` are distinct, so find_map finds one name
\* whatever the order of the HashMap.
MarkList_insert(marks, glyph, class, anchor) ==
    LET next_id == Cardinality(DOMAIN marks.classes)
        classes == IF class \in DOMAIN marks.classes THEN marks.classes
                   ELSE MapInsert(marks.classes, class, next_id)
        id == classes[class]
        prev == MapGet(marks.glyphs, glyph)
        after == [glyphs |-> MapInsert(marks.glyphs, glyph, <<id, anchor>>),
                  classes |-> classes]
    IN IF prev # None /\ prev[1][1] # id
       THEN [marks |-> after,
             ret |-> Result_Err([glyph_id |-> glyph,
                                 class |-> CHOOSE name \in DOMAIN classes :
                                              classes[name] = prev[1][1]])]
       ELSE [marks |-> after, ret |-> Result_Ok(id)]

\* MarkToLigBuilder: marks, a MarkList; ligatures, a map glyph -> list of components,
\* each a map class name -> anchor
MarkToLigBuilder_default == [marks |-> MarkList_default, ligatures |-> EmptyMap]

\* MarkToBaseBuilder::insert_mark, MarkToLigBuilder::insert_mark, MarkToMarkBuilder::insert_mark1
insert_mark(b, glyph, class, anchor) ==
    LET r == MarkList_insert(b.marks, glyph, class, anchor) IN
    [b |-> [b EXCEPT !.marks = r.marks], ret |-> r.ret]

\* for (i, anchor) in components.into_iter().enumerate(): component_list[i].insert(..);
\* panic: index out of bounds
RECURSIVE insert_components(_, _, _, _)
insert_components(component_list, class, components, i) ==
    IF i > Len(components) THEN [list |-> component_list, panic |-> FALSE]
    ELSE IF components[i] = None THEN insert_components(component_list, class, components, i + 1)
    ELSE IF i > Len(component_list) THEN [list |-> component_list, panic |-> TRUE]
    ELSE insert_components([component_list EXCEPT ![i] = MapInsert(@, class, components[i][1])],
                           class, components, i + 1)

\* mismatched lengths are logged (log::warn!) and the call goes on
insert_ligature(b, glyph, class, components) ==
    LET entry == IF glyph \in DOMAIN b.ligatures THEN b.ligatures[glyph] ELSE << >>
        component_list == IF entry = << >>
                          THEN [i \in 1..Len(components) |-> EmptyMap]
                          ELSE entry
        r == insert_components(component_list, class, components, 1)
    IN [b |-> [b EXCEPT !.ligatures = MapInsert(@, glyph, r.list)], panic |-> r.panic]

\* ------------------------------------------------------------------ mark builders, called directly
\* A MarkToLigBuilder is filled by insert_mark and insert_ligature in any order.
MaxComponents == 2      \* components of a ligature
MarkGlyphs == {1, 2}
LigGlyphs == {5}
MarkClasses == {"top", "bottom"}
Anchors == {10, 20}
RECURSIVE ComponentLists(_)
ComponentLists(n) ==
    IF n = 0 THEN {<< >>}
    ELSE ComponentLists(n - 1) \cup
         {Append(l, a) : l \in {x \in ComponentLists(n - 1) : Len(x) = n - 1},
                         a \in {None, Some(10)}}

MarkInit ==
    /\ Constructed
    /\ args = None
    /\ builder = Some(MarkToLigBuilder_default)

MarkCall(name, a, b, c, after, result, panic) ==
    /\ ~panicked
    /\ builder' = Some(after)
    /\ out' = result
    /\ panicked' = panic
    /\ op' = [name |-> name, a |-> a, b |-> b, c |-> c, bound |-> None, nnl |-> None]
    /\ UNCHANGED <<ctxvars, pos, block_empty, issued, run, s2, args>>

MarkInsertMark ==
    \E glyph \in MarkGlyphs, class \in MarkClasses, anchor \in Anchors :
       LET r == insert_mark(builder[1], glyph, class, anchor) IN
       MarkCall("insert_mark", glyph, class, anchor, r.b, Some(r.ret), FALSE)

MarkInsertLigature ==
    \E glyph \in LigGlyphs, class \in MarkClasses, components \in ComponentLists(MaxComponents) :
       LET r == insert_ligature(builder[1], glyph, class, components) IN
       MarkCall("insert_ligature", glyph, class, components, r.b, None, r.panic)

MarkNext ==
    \/ MarkInsertMark
    \/ MarkInsertLigature

MarkSpec == MarkInit /\ [][MarkNext]_vars

\* ------------------------------------------------------------------ mark attachment builds
\* MarkToBaseBuilder: marks, a MarkList; bases, a map glyph -> list of (class id, anchor)
MarkToBaseBuilder_default == [marks |-> MarkList_default, bases |-> EmptyMap]

\* MarkToMarkBuilder: attaching_marks, a MarkList; base_marks, a map glyph -> list of
\* (class id, anchor)
MarkToMarkBuilder_default == [attaching_marks |-> MarkList_default, base_marks |-> EmptyMap]

\* MarkList::get_class: expect("marks added before bases") panics for an unknown name
get_class(marks, class_name) ==
    IF class_name \in DOMAIN marks.classes
    THEN [panic |-> FALSE, id |-> marks.classes[class_name]]
    ELSE [panic |-> TRUE, id |-> 0]

\* entry(glyph).or_default().push((class, anchor))
push_anchor(map, glyph, class, anchor) ==
    MapInsert(map, glyph,
              Append(IF glyph \in DOMAIN map THEN map[glyph] ELSE << >>, <<class, anchor>>))

insert_base(b, glyph, class, anchor) ==
    LET r == get_class(b.marks, class) IN
    IF r.panic THEN [b |-> b, panic |-> TRUE]
    ELSE [b |-> [b EXCEPT !.bases = push_anchor(@, glyph, r.id, anchor)], panic |-> FALSE]

insert_mark1(b, glyph, class, anchor) ==
    LET r == MarkList_insert(b.attaching_marks, glyph, class, anchor) IN
    [b |-> [b EXCEPT !.attaching_marks = r.marks], ret |-> r.ret]

insert_mark2(b, glyph, class, anchor) ==
    LET r == get_class(b.attaching_marks, class) IN
    IF r.panic THEN [b |-> b, panic |-> TRUE]
    ELSE [b |-> [b EXCEPT !.base_marks = push_anchor(@, glyph, r.id, anchor)], panic |-> FALSE]

\* MarkList::build: the coverage and the MarkArray, both in glyph order
MarkList_build(marks) ==
    LET glyphs == sorted(DOMAIN marks.glyphs) IN
    [coverage |-> glyphs,
     array |-> [i \in 1..Len(glyphs) |->
                   [mark_class |-> marks.glyphs[glyphs[i]][1],
                    mark_anchor |-> marks.glyphs[glyphs[i]][2]]]]

\* for (class, anchor) in anchors { anchor_offsets[class as usize] = Some(..) };
\* panic "index": the index is out of bounds
RECURSIVE write_anchors(_, _, _)
write_anchors(anchor_offsets, anchors, i) ==
    IF i > Len(anchors) THEN [panic |-> "none", cells |-> anchor_offsets]
    ELSE IF anchors[i][1] >= Len(anchor_offsets) THEN [panic |-> "index", cells |-> anchor_offsets]
    ELSE write_anchors([anchor_offsets EXCEPT ![anchors[i][1] + 1] = Some(anchors[i][2])],
                       anchors, i + 1)

\* for (class, anchor) in anchors { let class_idx = marks.get_class(&class); .. }: the
\* names of one component are distinct keys; the ids of MarkList::insert are distinct,
\* so the cells do not depend on the order of the names. panic "get_class": the name
\* is unknown to the MarkList
RECURSIVE write_named_anchors(_, _, _, _)
write_named_anchors(anchor_offsets, anchors, names, marks) ==
    IF names = {} THEN [panic |-> "none", cells |-> anchor_offsets]
    ELSE LET class == CHOOSE c \in names : TRUE
             r == get_class(marks, class)
         IN IF r.panic THEN [panic |-> "get_class", cells |-> anchor_offsets]
            ELSE IF r.id >= Len(anchor_offsets) THEN [panic |-> "index", cells |-> anchor_offsets]
            ELSE write_named_anchors([anchor_offsets EXCEPT ![r.id + 1] = Some(anchors[class])],
                                     anchors, names \ {class}, marks)

\* the first panic of a list of results, "none" without one
first_panic(results) ==
    IF \A i \in 1..Len(results) : results[i].panic = "none" THEN "none"
    ELSE results[CHOOSE i \in 1..Len(results) :
                    /\ results[i].panic # "none"
                    /\ \A j \in 1..(i - 1) : results[j].panic = "none"].panic

\* the records of MarkToBaseBuilder::build and MarkToMarkBuilder::build, in glyph order
anchor_records(marks, bases) ==
    LET n_classes == Cardinality(DOMAIN marks.classes)
        glyphs == sorted(DOMAIN bases)
        written == [i \in 1..Len(glyphs) |->
                       write_anchors([k \in 1..n_classes |-> None], bases[glyphs[i]], 1)]
    IN [panic |-> first_panic(written),
        coverage |-> glyphs,
        records |-> [i \in 1..Len(glyphs) |-> written[i].cells]]

MarkToBaseBuilder_build(b) ==
    LET r == anchor_records(b.marks, b.bases)
        m == MarkList_build(b.marks)
    IN [panic |-> r.panic,
        mark_coverage |-> m.coverage, base_coverage |-> r.coverage,
        mark_array |-> m.array, base_array |-> r.records]

MarkToMarkBuilder_build(b) ==
    LET r == anchor_records(b.attaching_marks, b.base_marks)
        m == MarkList_build(b.attaching_marks)
    IN [panic |-> r.panic,
        mark_coverage |-> m.coverage, base_coverage |-> r.coverage,
        mark_array |-> m.array, base_array |-> r.records]

\* MarkToLigBuilder::build: one LigatureAttach per ligature glyph, one ComponentRecord
\* per component; base_array[i][j] holds the cells of component j of ligature i
MarkToLigBuilder_build(b) ==
    LET n_classes == Cardinality(DOMAIN b.marks.classes)
        glyphs == sorted(DOMAIN b.ligatures)
        written == [i \in 1..Len(glyphs) |->
                       [j \in 1..Len(b.ligatures[glyphs[i]]) |->
                           write_named_anchors([k \in 1..n_classes |-> None],
                                               b.ligatures[glyphs[i]][j],
                                               DOMAIN b.ligatures[glyphs[i]][j], b.marks)]]
        m == MarkList_build(b.marks)
    IN [panic |-> first_panic([i \in 1..Len(glyphs) |-> [panic |-> first_panic(written[i])]]),
        mark_coverage |-> m.coverage, base_coverage |-> glyphs,
        mark_array |-> m.array,
        base_array |-> [i \in 1..Len(glyphs) |->
                           [j \in 1..Len(written[i]) |-> written[i][j].cells]]]

\* ------------------------------------------------------------------ mark attachment, called directly
\* One of the three builders is constructed, filled by its two insert methods in any
\* order and built. args: the class names given to insert_mark / insert_mark1, each
\* once, in the order of their first call.
MaxAnchors == 2        \* anchors of one base glyph, of one mark2 glyph
BaseGlyphs == {5}

AttachInit ==
    /\ Constructed
    /\ args = Some(<< >>)
    /\ builder \in {Some(MarkToBaseBuilder_default), Some(MarkToMarkBuilder_default),
                    Some(MarkToLigBuilder_default)}

AttachCall(name, after, log, result, panic) ==
    /\ ~panicked
    /\ builder' = Some(after)
    /\ args' = Some(log)
    /\ out' = result
    /\ panicked' = panic
    /\ op' = [name |-> name, a |-> "", b |-> "", c |-> FALSE, bound |-> None, nnl |-> None]
    /\ UNCHANGED <<ctxvars, pos, block_empty, issued, run, s2>>

first_calls(log, class) ==
    IF \E i \in 1..Len(log) : log[i] = class THEN log ELSE Append(log, class)

AttachInsertMark ==
    /\ "marks" \in DOMAIN builder[1]
    /\ \E glyph \in MarkGlyphs, class \in MarkClasses, anchor \in Anchors :
          LET r == insert_mark(builder[1], glyph, class, anchor) IN
          AttachCall("insert_mark", r.b, first_calls(args[1], class), Some(r.ret), FALSE)

AttachInsertMark1 ==
    /\ "attaching_marks" \in DOMAIN builder[1]
    /\ \E glyph \in MarkGlyphs, class \in MarkClasses, anchor \in Anchors :
          LET r == insert_mark1(builder[1], glyph, class, anchor) IN
          AttachCall("insert_mark1", r.b, first_calls(args[1], class), Some(r.ret), FALSE)

AttachInsertBase ==
    /\ "bases" \in DOMAIN builder[1]
    /\ \E glyph \in BaseGlyphs, class \in MarkClasses, anchor \in Anchors :
          /\ glyph \in DOMAIN builder[1].bases => Len(builder[1].bases[glyph]) < MaxAnchors
          /\ LET r == insert_base(builder[1], glyph, class, anchor) IN
             AttachCall("insert_base", r.b, args[1], None, r.panic)

AttachInsertMark2 ==
    /\ "base_marks" \in DOMAIN builder[1]
    /\ \E glyph \in BaseGlyphs, class \in MarkClasses, anchor \in Anchors :
          /\ glyph \in DOMAIN builder[1].base_marks =>
                Len(builder[1].base_marks[glyph]) < MaxAnchors
          /\ LET r == insert_mark2(builder[1], glyph, class, anchor) IN
             AttachCall("insert_mark2", r.b, args[1], None, r.panic)

AttachInsertLigature ==
    /\ "ligatures" \in DOMAIN builder[1]
    /\ \E glyph \in LigGlyphs, class \in MarkClasses, components \in ComponentLists(MaxComponents) :
          LET r == insert_ligature(builder[1], glyph, class, components) IN
          AttachCall("insert_ligature", r.b, args[1], None, r.panic)

\* build(self): the builder is shown as it was when it was built
AttachBuild ==
    LET b == builder[1]
        built == IF "bases" \in DOMAIN b THEN MarkToBaseBuilder_build(b)
                 ELSE IF "base_marks" \in DOMAIN b THEN MarkToMarkBuilder_build(b)
                 ELSE MarkToLigBuilder_build(b)
    IN /\ out = None \/ op.name # "build"
       /\ AttachCall("build", b, args[1], Some(built), built.panic # "none")

AttachNext ==
    \/ AttachInsertMark
    \/ AttachInsertMark1
    \/ AttachInsertBase
    \/ AttachInsertMark2
    \/ AttachInsertLigature
    \/ AttachBuild

AttachSpec == AttachInit /\ [][AttachNext]_vars

\* ------------------------------------------------------------------ blocks and flags, called directly
\* The block methods of CompilationCtx with lookups opened by direct calls of
\* AllLookups::start_lookup and with lookupflag statements at any point, in any
\* number of features.
BlockFlagStmts ==
    { FlagNumber(0),
      FlagKeywords(<<KwClass("UseMarkFilteringSet", <<1>>)>>) }

BlockStartFeature ==
    /\ cur_feature_name = None
    /\ \E tag \in OrgFeatureTags :
          Do(start_feature(Ctx, tag), Sig("start_feature", tag, "", FALSE), None)
    /\ NoWalk

BlockStartLookup ==
    /\ \E name \in OptNames :
          Do(ctx_start_lookup(Ctx, "GsubType1", name, lookup_flags),
             Sig("start_lookup", "GsubType1", IF name # None THEN name[1] ELSE "", FALSE), None)
    /\ NoWalk

BlockLookupFlag ==
    /\ \E node \in BlockFlagStmts :
          Do(set_lookup_flag(Ctx, node), Sig("set_lookup_flag", "", "", FALSE), None)
    /\ NoWalk

BlocksNext ==
    \/ OrgAddLanguageSystem
    \/ BlockStartFeature
    \/ OrgEndFeature
    \/ NamedStartLookupBlock
    \/ BlockStartLookup
    \/ NamedEndLookupBlock
    \/ BlockLookupFlag

BlocksSpec == Init /\ [][BlocksNext]_vars

\* ------------------------------------------------------------------ class-pair subtables
\* the records of a subtable, as a set
ClassPairPosSubtable_records(sub) ==
    UNION {{sub.items[c1][c2] : c2 \in DOMAIN sub.items[c1]} : c1 \in DOMAIN sub.items}

\* fold(.., |acc, f| acc | f.format()) over the k-th records
RECURSIVE fold_formats(_, _)
fold_formats(recs, k) ==
    IF recs = {} THEN 0
    ELSE LET r == CHOOSE x \in recs : TRUE IN
         BitOr(ValueRecord_format(r[k]), fold_formats(recs \ {r}, k))

\* the formats of one record of the subtable, taken for all
first_record_formats(sub) ==
    LET r == CHOOSE x \in ClassPairPosSubtable_records(sub) : TRUE IN
    <<ValueRecord_format(r[1]), ValueRecord_format(r[2])>>

compute_value_formats(sub) ==
    <<fold_formats(ClassPairPosSubtable_records(sub), 1),
      fold_formats(ClassPairPosSubtable_records(sub), 2)>>

\* RawValueRecord::with_explicit_value_format
with_explicit_value_format(v, format) == [value |-> v, format |-> format]

Class2Record_new(v1, v2) == [value_record1 |-> v1, value_record2 |-> v2]

\* ClassPairPosSubtable::build. class1map and class2map are the maps classdef_1.build()
\* and classdef_2.build() return: class -> class id, the ids of the first side from 0,
\* those of the second side from 1.
ClassPairPosSubtable_build(sub, class1map, class2map) ==
    IF sub.items = EmptyMap THEN [panic |-> TRUE, ret |-> None]
    ELSE LET formats == compute_value_formats(sub)
             empty_record ==
                 Class2Record_new(with_explicit_value_format(ValueRecord_default, formats[1]),
                                  with_explicit_value_format(ValueRecord_default, formats[2]))
             records(cls1) ==
                 [idx \in 1..(Cardinality(DOMAIN class2map) + 1) |->
                     IF \E c2 \in DOMAIN sub.items[cls1] : class2map[c2] = idx - 1
                     THEN LET c2 == CHOOSE c \in DOMAIN sub.items[cls1] : class2map[c] = idx - 1
                          IN Class2Record_new(
                                with_explicit_value_format(sub.items[cls1][c2][1], formats[1]),
                                with_explicit_value_format(sub.items[cls1][c2][2], formats[2]))
                     ELSE empty_record]
             class1_records ==
                 [idx \in 1..Cardinality(DOMAIN sub.items) |->
                     records(CHOOSE c1 \in DOMAIN sub.items : class1map[c1] = idx - 1)]
         IN [panic |-> FALSE,
             ret |-> Some([coverage |-> sorted(UNION (DOMAIN sub.items)),
                           class1def |-> class1map, class2def |-> class2map,
                           class1_records |-> class1_records])]

\* ------------------------------------------------------------------ ClassPairPosBuilder, called directly
\* A ClassPairPosBuilder is filled by insert and one of its subtables is built. args
\* is the list of the inserts made. The class ids a ClassDefBuilder2 gives are taken
\* in any order.
MaxClassInserts == 3     \* inserts into one builder
ClassRecords == { <<XAdvance(100), ValueRecord_default>>, <<XPlacement(5), XAdvance(-50)>> }
ClassIds(classdef, from) ==
    {f \in [classdef -> from..(from + Cardinality(classdef) - 1)] :
        \A a, b \in classdef : a # b => f[a] # f[b]}

ClassInit ==
    /\ Constructed
    /\ args = Some(<< >>)
    /\ builder = Some(<< >>)

ClassInsert ==
    /\ Len(args[1]) < MaxClassInserts
    /\ \E c1 \in PairClasses, c2 \in PairClasses, r \in ClassRecords :
          PairCall("insert", ClassPairPosBuilder_insert(builder[1], c1, r[1], c2, r[2]),
                   Append(args[1], [one |-> c1, two |-> c2, record1 |-> r[1], record2 |-> r[2]]),
                   None)

ClassSubtableBuild ==
    \E i \in 1..Len(builder[1]) :
       \E class1map \in ClassIds(builder[1][i].classdef_1, 0),
          class2map \in ClassIds(builder[1][i].classdef_2, 1) :
          PairCall("build", builder[1], args[1],
                   Some([sub |-> i,
                         built |-> ClassPairPosSubtable_build(builder[1][i], class1map,
                                                              class2map)]))

ClassNext ==
    \/ ClassInsert
    \/ ClassSubtableBuild

ClassSpec == ClassInit /\ [][ClassNext]_vars

\* ------------------------------------------------------------------ LigatureSubBuilder
\* items: first glyph -> list of (rest of the target, replacement), in insertion order
LigatureSubBuilder_default == [items |-> EmptyMap]

\* items.entry(first).or_default().push((rest, replacement)); the target is not empty
LigatureSubBuilder_insert(b, target, replacement) ==
    LET first == target[1]
        rest == SubSeq(target, 2, Len(target))
        ligs == IF first \in DOMAIN b.items THEN b.items[first] ELSE << >>
    IN [b EXCEPT !.items = MapInsert(@, first, Append(ligs, <<rest, replacement>>))]

\* a sort by Reverse(lig.len()) that takes the latest of the entries of equal length
\* first
RECURSIVE sort_by_key_reversing_ties(_)
sort_by_key_reversing_ties(ligs) ==
    IF ligs = << >> THEN << >>
    ELSE LET i == CHOOSE k \in 1..Len(ligs) :
                     /\ \A j \in 1..Len(ligs) : Len(ligs[k][1]) >= Len(ligs[j][1])
                     /\ \A j \in (k + 1)..Len(ligs) : Len(ligs[j][1]) < Len(ligs[k][1])
         IN <<ligs[i]>> \o
            sort_by_key_reversing_ties(SubSeq(ligs, 1, i - 1) \o SubSeq(ligs, i + 1, Len(ligs)))

\* ligs.sort_by_key(|(lig, _)| Reverse(lig.len())), a stable sort: the earliest of
\* the longest entries first
RECURSIVE sort_by_key(_)
sort_by_key(ligs) ==
    IF ligs = << >> THEN << >>
    ELSE LET i == CHOOSE k \in 1..Len(ligs) :
                     /\ \A j \in 1..Len(ligs) : Len(ligs[k][1]) >= Len(ligs[j][1])
                     /\ \A j \in 1..(k - 1) : Len(ligs[j][1]) < Len(ligs[k][1])
         IN <<ligs[i]>> \o
            sort_by_key(SubSeq(ligs, 1, i - 1) \o SubSeq(ligs, i + 1, Len(ligs)))

Ligature_new(lig_glyph, components) ==
    [ligature_glyph |-> lig_glyph, component_glyph_ids |-> components]

\* one LigatureSubstFormat1: coverage from the keys, a LigatureSet per key
LigatureSubBuilder_build(b) ==
    LET firsts == sorted(DOMAIN b.items) IN
    <<[coverage |-> firsts,
       ligature_sets |->
          [p \in 1..Len(firsts) |->
              LET ligs == sort_by_key(b.items[firsts[p]]) IN
              [i \in 1..Len(ligs) |-> Ligature_new(ligs[i][2], ligs[i][1])]]]>>

\* ------------------------------------------------------------------ LigatureSubBuilder, called directly
\* A builder is filled by insert and then built. args is the list of the inserts made.
MaxLigInserts == 3       \* inserts into one builder
LigTargets == { <<1>>, <<1, 1>>, <<1, 1, 2>>, <<1, 2>>, <<2>>, <<2, 1>> }
LigReplacements == {7, 8}

LigInit ==
    /\ Constructed
    /\ args = Some(<< >>)
    /\ builder = Some(LigatureSubBuilder_default)

LigInsert ==
    /\ Len(args[1]) < MaxLigInserts
    /\ \E target \in LigTargets, replacement \in LigReplacements :
          PairCall("insert", LigatureSubBuilder_insert(builder[1], target, replacement),
                   Append(args[1], [target |-> target, replacement |-> replacement]), None)

LigBuild ==
    PairCall("build", builder[1], args[1], Some(LigatureSubBuilder_build(builder[1])))

LigNext ==
    \/ LigInsert
    \/ LigBuild

LigSpec == LigInit /\ [][LigNext]_vars

\* ------------------------------------------------------------------ hash maps in the builders
\* The order in which a HashMap is iterated is not specified: the loops over one take
\* the order as an argument, a sequence of the keys.
Perms(S) ==
    {p \in [1..Cardinality(S) -> S] : \A i, j \in 1..Cardinality(S) : i # j => p[i] # p[j]}

\* for (lang, feature_indices) in entry
RECURSIVE script_record(_, _, _, _)
script_record(entry, langs, i, record) ==
    IF i > Len(langs) THEN record
    ELSE LET lang == langs[i] IN
         script_record(entry, langs, i + 1,
            IF lang \notin DOMAIN entry THEN record
            ELSE IF lang = LANG_DFLT_TAG
            THEN [record EXCEPT !.default_language_system = Some(entry[lang])]
            ELSE [record EXCEPT !.language_systems = MapInsert(@, lang, entry[lang])])

\* for (script, entry) in self.scripts.into_iter()
RECURSIVE script_records(_, _, _, _, _)
script_records(entries, order, langs, i, result) ==
    IF i > Len(order) THEN result
    ELSE script_records(entries, order, langs, i + 1,
            MapInsert(result, order[i],
                      script_record(entries[order[i]], langs, 1,
                                    [default_language_system |-> None,
                                     language_systems |-> EmptyMap])))

\* for ((tag, lookups), idx) in self.features: result.features[idx] = (tag, lookups, None)
RECURSIVE feature_records(_, _, _, _)
feature_records(indices, order, i, result) ==
    IF i > Len(order) THEN result
    ELSE feature_records(indices, order, i + 1,
                         [result EXCEPT ![indices[order[i]] + 1] = order[i]])

\* PosSubBuilder::build, its three loops over hash maps in the orders given
PosSubBuilder_build_in_order(b, scripts_order, langs_order, features_order) ==
    IF b.lookups = << >> THEN None
    ELSE Some([lookups |-> b.lookups,
               scripts |-> script_records(b.scripts, scripts_order, langs_order, 1, EmptyMap),
               features |-> feature_records(b.features, features_order, 1,
                               [i \in 1..Cardinality(DOMAIN b.features) |->
                                   <<LANG_DFLT_TAG, << >> >>])])

\* RawValueRecord::encoded_size: two bytes for each field held
encoded_size(v) ==
    (IF v.xPlacement # None THEN 2 ELSE 0) + (IF v.xAdvance # None THEN 2 ELSE 0)

NEW_SUBTABLE_COST == 10

\* build_subtable giving format 2 always
build_subtable_format_2(items) ==
    LET glyphs == sorted(DOMAIN items) IN
    [format |-> 2, coverage |-> glyphs,
     records |-> [i \in 1..Len(glyphs) |-> items[glyphs[i]]]]

\* build_subtable(items): format 1 when the first record is empty or all are equal
build_subtable(items) ==
    LET glyphs == sorted(DOMAIN items)
        first == items[glyphs[1]]
        use_format_1 == ValueRecord_format(first) = 0 \/ \A g \in DOMAIN items : items[g] = first
    IN IF use_format_1
       THEN [format |-> 1, coverage |-> glyphs, records |-> <<first>>]
       ELSE [format |-> 2, coverage |-> glyphs,
             records |-> [i \in 1..Len(glyphs) |-> items[glyphs[i]]]]

\* for (value, glyphs) in group_by_record
RECURSIVE split_groups(_, _, _, _)
split_groups(group_by_record, order, i, acc) ==
    IF i > Len(order) THEN acc
    ELSE LET value == order[i]
             glyphs == group_by_record[value]
         IN split_groups(group_by_record, order, i + 1,
               IF Cardinality(DOMAIN glyphs) * encoded_size(value) > NEW_SUBTABLE_COST
               THEN [acc EXCEPT !.subtables = Append(@, glyphs)]
               ELSE LET f == ValueRecord_format(value)
                        old == IF f \in DOMAIN acc.group_by_format
                               THEN acc.group_by_format[f] ELSE EmptyMap
                    IN [acc EXCEPT !.group_by_format =
                           MapInsert(@, f, [g \in DOMAIN old \cup DOMAIN glyphs |->
                                               IF g \in DOMAIN glyphs THEN glyphs[g]
                                               ELSE old[g]])])

\* cmp_coverage_key: (Reverse(coverage.len()), coverage.iter().next())
cmp_coverage_key_le(t1, t2) ==
    \/ Len(t1.coverage) > Len(t2.coverage)
    \/ Len(t1.coverage) = Len(t2.coverage) /\ t1.coverage[1] <= t2.coverage[1]

\* the output left in the order the subtables were made
sort_skipped(output) == output

\* output.sort_unstable_by_key(..)
RECURSIVE sort_unstable_by_key(_)
sort_unstable_by_key(output) ==
    IF output = << >> THEN << >>
    ELSE LET i == CHOOSE k \in 1..Len(output) :
                     \A j \in 1..Len(output) : cmp_coverage_key_le(output[k], output[j])
         IN <<output[i]>> \o
            sort_unstable_by_key(SubSeq(output, 1, i - 1) \o SubSeq(output, i + 1, Len(output)))

\* SinglePosBuilder::build, its loops over group_by_record and group_by_format in the
\* orders given
SinglePosBuilder_build(items, records_order, formats_order) ==
    LET group_by_record ==
            [value \in {items[g] : g \in DOMAIN items} |->
                [g \in {x \in DOMAIN items : items[x] = value} |-> value]]
        split == split_groups(group_by_record, records_order, 1,
                              [subtables |-> << >>, group_by_format |-> EmptyMap])
        formats == SelectSeq(formats_order, LAMBDA f : f \in DOMAIN split.group_by_format)
        subtables == split.subtables \o
                     [i \in 1..Len(formats) |-> split.group_by_format[formats[i]]]
    IN sort_unstable_by_key([i \in 1..Len(subtables) |-> build_subtable(subtables[i])])

\* ------------------------------------------------------------------ the table builders, called directly
\* Either a PosSubBuilder is filled by add and built, or the items of a
\* SinglePosBuilder are built. args is the list of the adds made.
MaxAdds == 3         \* add calls on one PosSubBuilder
SameRecord == 6      \* glyphs 1..SameRecord hold 100 or -50 each
AddKeys ==
    { <<"liga", "DFLT", "dflt">>, <<"liga", "latn", "dflt">>, <<"size", "latn", "TRK">> }
AddLookups == { <<Gsub(0)>>, <<Gsub(0), Gsub(1)>> }
SinglePosItems ==
    { [g \in S |-> IF g <= SameRecord THEN r[g]
                   ELSE IF g = SameRecord + 1 THEN XAdvance(100)
                   ELSE IF g = SameRecord + 2 THEN ValueRecord_default
                   ELSE XAdvance(7)] :
        S \in { (1..SameRecord) \cup T :
                  T \in SUBSET {SameRecord + 1, SameRecord + 2, SameRecord + 3} },
        r \in [1..SameRecord -> {XAdvance(100), XAdvance(-50)}] }

TablesInit ==
    /\ Constructed
    /\ args = Some(<< >>)
    /\ \/ \E lks \in { << >>, <<"lookup">> } : builder = Some(<<"PosSub", PosSubBuilder_new(lks)>>)
       \/ \E items \in SinglePosItems : builder = Some(<<"SinglePos", items>>)

TablesCall(name, order, b, log, result) ==
    /\ out = None
    /\ builder' = Some(<<builder[1][1], b>>)
    /\ args' = Some(log)
    /\ out' = result
    /\ op' = [name |-> name, a |-> order, b |-> "", c |-> FALSE, bound |-> None, nnl |-> None]
    /\ UNCHANGED <<ctxvars, panicked, pos, block_empty, issued, run, s2>>

TablesAdd ==
    /\ builder[1][1] = "PosSub"
    /\ Len(args[1]) < MaxAdds
    /\ \E key \in AddKeys, ids \in AddLookups :
          TablesCall("add", << >>, PosSubBuilder_add(builder[1][2], key, ids),
                     Append(args[1], [key |-> key, lookups |-> ids]), None)

TablesPosSubBuild ==
    /\ builder[1][1] = "PosSub"
    /\ LET b == builder[1][2] IN
       \E scripts_order \in Perms(DOMAIN b.scripts), langs_order \in Perms({"dflt", "TRK"}),
          features_order \in Perms(DOMAIN b.features) :
          TablesCall("build", <<scripts_order, langs_order, features_order>>, b, args[1],
                     Some(PosSubBuilder_build_in_order(b, scripts_order, langs_order,
                                                       features_order)))

TablesSinglePosBuild ==
    /\ builder[1][1] = "SinglePos"
    /\ LET items == builder[1][2] IN
       \E records_order \in Perms({items[g] : g \in DOMAIN items}), formats_order \in Perms({0, 4}) :
          TablesCall("build", <<records_order, formats_order>>, items, args[1],
                     Some(SinglePosBuilder_build(items, records_order, formats_order)))

TablesNext ==
    \/ TablesAdd
    \/ TablesPosSubBuild
    \/ TablesSinglePosBuild

TablesSpec == TablesInit /\ [][TablesNext]_vars

\* ================================================================== the claims

\* C1: needs_new_lookup(kind) returns true if and only if there is no current lookup
\* or the current lookup's kind differs from kind. Stated over every call the program
\* has made (op.nnl: the kind asked for, the current lookup's kind, the value returned).
C1_needs_new_lookup ==
    op.nnl # None =>
        LET q == op.nnl[1] IN
        q.ret <=> (q.cur = None \/ q.cur[1] # q.kind)

\* C2: in a sequence of rule statements inside a feature that starts with no current
\* lookup, every rule is compiled (no panic), the rule just added is in the current
\* lookup, which has the rule's kind and carries lookup_flags and cur_mark_filter_set,
\* and the lookups produced since the sequence began are as many as the maximal runs
\* of same-kind rules.
C2_coalescing ==
    (run.kinds # << >> /\ run.clean /\ cur_feature_name # None) =>
        LET n == Len(run.kinds)
            runs == Cardinality({i \in 1..n : i = 1 \/ run.kinds[i] # run.kinds[i - 1]})
        IN /\ ~panicked
           /\ lookups.current # None
           /\ lookups.current[1].kind = run.kinds[n]
           /\ lookups.current[1].flags = lookup_flags
           /\ lookups.current[1].mark_filtering_set = cur_mark_filter_set
           /\ NumLookups(lookups) - run.base = runs

\* C3: lookup stability. The ids ever returned are exactly Gpos(0..len(gpos)-1) and
\* Gsub(0..len(gsub)-1), and the entry of its kind's vector at an id's index is the
\* lookup that was finalized when the id was issued.
C3_lookup_stability ==
    /\ DOMAIN issued = {Gpos(i) : i \in 0..(Len(lookups.gpos) - 1)}
                       \cup {Gsub(j) : j \in 0..(Len(lookups.gsub) - 1)}
    /\ \A id \in DOMAIN issued :
          LET v == IF id[1] = "Gpos" THEN lookups.gpos ELSE lookups.gsub
          IN v[id[2] + 1] = issued[id]

\* C3's case: ids of both kinds have been issued, each kind numbered from 0, and two
\* of one kind in order.
C3_witness ==
    /\ op.name \in {"start_lookup", "finish_current"}
    /\ \/ {Gpos(0), Gsub(0)} \subseteq DOMAIN issued
       \/ {Gpos(0), Gpos(1)} \subseteq DOMAIN issued

\* C4: a step that binds an id to the current feature appends it to the end of
\* features[(feature, script, lang)] for every (script, lang) of cur_language_systems,
\* creates no other key and changes no other entry; an id already in a list is
\* appended again.
C4_binding ==
    [][ op'.bound # None =>
          LET id == op'.bound[1]
              F == cur_feature_name[1]
              keys == {<<F, sl[1], sl[2]>> : sl \in cur_language_systems}
          IN /\ DOMAIN features' = DOMAIN features \cup keys
             /\ \A k \in DOMAIN features' :
                   features'[k] =
                      IF k \in keys
                      THEN Append(IF k \in DOMAIN features THEN features[k] ELSE << >>, id)
                      ELSE features[k]
      ]_vars

\* C4's case: a reference to a named lookup has bound an id the list already held.
C4_witness ==
    /\ op.name = "resolve_lookup_ref"
    /\ op.bound # None
    /\ \E k \in DOMAIN features :
          /\ Len(features[k]) = 2
          /\ features[k][1] = op.bound[1]
          /\ features[k][2] = op.bound[1]

\* C5: a script statement, or `language dflt` without exclude_dflt, inside feature F
\* with current script S leaves features[(F, S, dflt)] equal to the list registered
\* under (F, DFLT, dflt) once the outgoing lookup has been bound (empty when there is
\* none).
C5_script_copies_default ==
    [][ ( /\ \/ op'.name = "set_script"
             \/ op'.name = "set_language" /\ op'.a = LANG_DFLT_TAG /\ ~op'.c
          /\ cur_feature_name # None
          /\ cur_feature_name \notin {Some(AALT_TAG), Some(SIZE_TAG)}
          /\ ~panicked' ) =>
          LET F == cur_feature_name[1]
              S == IF script' # None THEN script'[1] ELSE SCRIPT_DFLT_TAG
              dk == <<F, SCRIPT_DFLT_TAG, LANG_DFLT_TAG>>
              old == IF dk \in DOMAIN features THEN features[dk] ELSE << >>
              registered ==
                  IF op'.bound # None
                     /\ <<SCRIPT_DFLT_TAG, LANG_DFLT_TAG>> \in cur_language_systems
                  THEN Append(old, op'.bound[1]) ELSE old
          IN /\ <<F, S, LANG_DFLT_TAG>> \in DOMAIN features'
             /\ features'[<<F, S, LANG_DFLT_TAG>>] = registered
      ]_vars

\* C5's case: `script latn` has copied a non-empty default list.
C5_witness ==
    /\ op.name = "set_script"
    /\ op.a = "latn"
    /\ ~panicked
    /\ cur_feature_name = Some("liga")
    /\ <<"liga", "latn", LANG_DFLT_TAG>> \in DOMAIN features
    /\ features[<<"liga", "latn", LANG_DFLT_TAG>>] # << >>
    /\ features[<<"liga", "latn", LANG_DFLT_TAG>>]
          = features[<<"liga", SCRIPT_DFLT_TAG, LANG_DFLT_TAG>>]

\* C6: inheritance. A `language L` statement with L other than dflt, inside feature F
\* with current script S, leaves features[(F, S, L)] beginning with the list that
\* features[(F, S, dflt)] held at that moment (the outgoing lookup bound); with
\* exclude_dflt the list starts empty.
C6_language_inherits ==
    [][ ( /\ op'.name = "set_language"
          /\ op'.a # LANG_DFLT_TAG
          /\ cur_feature_name # None
          /\ cur_feature_name \notin {Some(AALT_TAG), Some(SIZE_TAG)}
          /\ ~panicked' ) =>
          LET F == cur_feature_name[1]
              S == IF script # None THEN script[1] ELSE SCRIPT_DFLT_TAG
              sk == <<F, S, LANG_DFLT_TAG>>
              old == IF sk \in DOMAIN features THEN features[sk] ELSE << >>
              held == IF op'.bound # None /\ <<S, LANG_DFLT_TAG>> \in cur_language_systems
                      THEN Append(old, op'.bound[1]) ELSE old
              new == features'[<<F, S, op'.a>>]
          IN /\ <<F, S, op'.a>> \in DOMAIN features'
             /\ IF op'.c THEN new = << >>
                ELSE Len(new) >= Len(held) /\ SubSeq(new, 1, Len(held)) = held
      ]_vars

\* C7: scenario S2 runs to its end without a panic and ends with
\* features[(liga, latn, dflt)] = [L0] and features[(liga, latn, TRK)] = [L1],
\* L0 and L1 the first and second GSUB lookups.
C7_scenario_S2 ==
    /\ s2 > 0 => ~panicked
    /\ s2 = Len(S2Prog) =>
          /\ <<"liga", "latn", "dflt">> \in DOMAIN features
          /\ features[<<"liga", "latn", "dflt">>] = <<Gsub(0)>>
          /\ <<"liga", "latn", "TRK">> \in DOMAIN features
          /\ features[<<"liga", "latn", "TRK">>] = <<Gsub(1)>>

\* C8: in every reachable state no Gpos id comes after a Gsub id in any feature's list.
C8_single_transition ==
    \A k \in DOMAIN features :
       \A i, j \in 1..Len(features[k]) :
          i < j => ~(features[k][i][1] = "Gsub" /\ features[k][j][1] = "Gpos")

\* C9: when a named lookup block ends, the block's name is registered in the named
\* table with the id of the finalized lookup, and inside a feature that id has been
\* bound to the feature.
C9_named_block_end ==
    op.name = "end_lookup_block" =>
        /\ ~panicked
        /\ op.a \in DOMAIN lookups.named
        /\ cur_feature_name # None =>
              /\ op.bound = Some(lookups.named[op.a])
              /\ \A sl \in cur_language_systems :
                    LET k == <<cur_feature_name[1], sl[1], sl[2]>> IN
                    /\ k \in DOMAIN features
                    /\ features[k][Len(features[k])] = lookups.named[op.a]

\* C10: a script or language statement outside any feature, or inside aalt or size,
\* records an error diagnostic and leaves features, cur_language_systems and the
\* current lookup unchanged.
C10_invalid_script_language ==
    [][ ( /\ op'.name \in {"set_script", "set_language"}
          /\ \/ cur_feature_name = None
             \/ cur_feature_name \in {Some(AALT_TAG), Some(SIZE_TAG)} ) =>
          /\ ~panicked'
          /\ Len(errors') > Len(errors)
          /\ is_error(errors'[Len(errors')])
          /\ features' = features
          /\ cur_language_systems' = cur_language_systems
          /\ lookups'.current = lookups.current
          /\ lookups'.current_name = lookups.current_name
      ]_vars

\* C10's case: a script or language statement has been rejected, inside the size
\* feature or outside any feature.
C10_witness ==
    /\ op.name \in {"set_script", "set_language"}
    /\ cur_feature_name \in {None, Some(SIZE_TAG)}
    /\ ~panicked
    /\ errors # << >>
    /\ is_error(errors[Len(errors)])

C12_cid_range ==
    (op.name = "cid_range" /\ out # None) =>
        LET n == digits_value(args[1][1].text, 1, 0)
            m == digits_value(args[1][2].text, 1, 0)
            r == out[1]
        IN IF n < m
           THEN /\ r.ret = "Ok"
                /\ Len(r.calls) = m - n + 1
                /\ \A i \in 1..Len(r.calls) : r.calls[i] = n + i - 1
           ELSE r.ret = "Err" /\ r.calls = << >>

\* C12's case: a range of at least three CIDs, written with a leading zero, expanded.
C12_witness ==
    /\ op.name = "cid_range"
    /\ out # None
    /\ out[1].ret = "Ok"
    /\ Len(out[1].calls) >= 3
    /\ args[1][1].text[1] = 48

\* C13: when the diff range D of a named range is a decimal number on both sides,
\* s < e, named_range returns Ok and hands the callback one name for each value of
\* [s, e], e included, in order: the start name with D replaced by the value
\* zero-padded to the width of D.
C13_num_range_closed ==
    (op.name = "named_range" /\ out # None /\ Len(args[1][1].text) = Len(args[1][2].text)) =>
        LET start == args[1][1].text
            end == args[1][2].text
            D == get_diff_range(start, end)
            one == slice(start, D)
            two == slice(end, D)
            decimal(t) == t # << >> /\ \A i \in 1..Len(t) : is_ascii_digit(t[i])
            s0 == digits_value(one, 1, 0)
            e0 == digits_value(two, 1, 0)
            r == out[1]
        IN (decimal(one) /\ decimal(two) /\ s0 < e0) =>
              /\ r.ret = "Ok"
              /\ Len(r.calls) = e0 - s0 + 1
              /\ \A i \in 1..Len(r.calls) :
                    r.calls[i] = replace_range(start, D, format_width(s0 + i - 1, D.end - D.start))

\* C14 as claimed: two names of equal length that differ in exactly one byte, both
\* bytes ASCII letters of the same case, start < end, give Ok and one name per letter
\* of the closed interval, the start name with that byte replaced.
C14_alpha_range_any_neighbour ==
    (op.name = "named_range" /\ out # None /\ Len(args[1][1].text) = Len(args[1][2].text)) =>
        LET start == args[1][1].text
            end == args[1][2].text
            differ == {i \in 1..Len(start) : start[i] # end[i]}
            p == CHOOSE i \in differ : TRUE
            r == out[1]
        IN ( /\ Cardinality(differ) = 1
             /\ is_ascii_alphabetic(start[p]) /\ is_ascii_alphabetic(end[p])
             /\ (start[p] <= 90) = (end[p] <= 90)
             /\ start[p] < end[p] ) =>
              /\ r.ret = "Ok"
              /\ Len(r.calls) = end[p] - start[p] + 1
              /\ \A i \in 1..Len(r.calls) :
                    r.calls[i] = [start EXCEPT ![p] = start[p] + i - 1]

\* C14 amended: the same, for a differing byte that has no ASCII digit next to it (so
\* that the diff range, extended over adjacent digits, is that one byte).
C14_alpha_range ==
    (op.name = "named_range" /\ out # None /\ Len(args[1][1].text) = Len(args[1][2].text)) =>
        LET start == args[1][1].text
            end == args[1][2].text
            differ == {i \in 1..Len(start) : start[i] # end[i]}
            p == CHOOSE i \in differ : TRUE
            r == out[1]
        IN ( /\ Cardinality(differ) = 1
             /\ is_ascii_alphabetic(start[p]) /\ is_ascii_alphabetic(end[p])
             /\ (start[p] <= 90) = (end[p] <= 90)
             /\ start[p] < end[p]
             /\ p > 1 => ~is_ascii_digit(start[p - 1])
             /\ p < Len(start) => ~is_ascii_digit(start[p + 1]) ) =>
              /\ r.ret = "Ok"
              /\ Len(r.calls) = end[p] - start[p] + 1
              /\ \A i \in 1..Len(r.calls) :
                    r.calls[i] = [start EXCEPT ![p] = start[p] + i - 1]

\* C14's case: Aa - Ca has given Aa, Ba, Ca.
C14_witness ==
    /\ op.name = "named_range"
    /\ args = Some(<<Token("GlyphName", <<65, 97>>), Token("GlyphName", <<67, 97>>)>>)
    /\ out = Some(Range_Ok(<< <<65, 97>>, <<66, 97>>, <<67, 97>> >>))

\* C15: named_range returns an error and hands the callback nothing for names of
\* unequal length, identical names, a one-byte difference with start >= end, a
\* one-letter difference across cases, and a diff range of several bytes that is not
\* a pair of decimal numbers s < e; glyph_range returns an error for a range mixing a
\* CID with a glyph name.
C15_ill_formed_range ==
    /\ (op.name = "named_range" /\ out # None) =>
          LET start == args[1][1].text
              end == args[1][2].text
              same_len == Len(start) = Len(end)
              differ == {i \in 1..Len(start) : start[i] # end[i]}
              p == CHOOSE i \in differ : TRUE
              D == get_diff_range(start, end)
              one == slice(start, D)
              two == slice(end, D)
              decimal(t) == t # << >> /\ \A i \in 1..Len(t) : is_ascii_digit(t[i])
              ill_formed ==
                  \/ ~same_len
                  \/ start = end
                  \/ same_len /\ Cardinality(differ) = 1 /\ start[p] >= end[p]
                  \/ /\ same_len /\ Cardinality(differ) = 1
                     /\ is_ascii_alphabetic(start[p]) /\ is_ascii_alphabetic(end[p])
                     /\ (start[p] <= 90) # (end[p] <= 90)
                  \/ /\ same_len /\ D.end - D.start > 1
                     /\ ~(/\ decimal(one) /\ decimal(two)
                          /\ digits_value(one, 1, 0) < digits_value(two, 1, 0))
          IN ill_formed => out[1] = [ret |-> "Err", calls |-> << >>]
    /\ (op.name = "glyph_range" /\ out # None /\ args[1][1].kind # args[1][2].kind) =>
          out[1][1] = "Err"

\* C15's case: C1 - A1, a one-byte difference with start > end beside a digit, was
\* refused.
C15_witness ==
    /\ op.name = "named_range"
    /\ args = Some(<<Token("GlyphName", <<67, 49>>), Token("GlyphName", <<65, 49>>)>>)
    /\ out = Some([ret |-> "Err", calls |-> << >>])

\* C16: a `subtable;` statement with a current lookup appends one empty subtable to
\* it, and with no current lookup changes nothing; a single-substitution rule in a
\* feature is compiled into the last subtable of the current GSUB lookup, leaving the
\* earlier subtables of a lookup that was already current as they were (so that 7
\* rules with a break after the 3rd give one lookup with subtables of 3 and 4 rules).
C16_subtable_break ==
    [][ /\ op'.name = "add_subtable_break" =>
              /\ ~panicked'
              /\ lookups' = IF lookups.current # None
                            THEN [lookups EXCEPT !.current[1].subtables = Append(@, EmptyMap)]
                            ELSE lookups
        /\ (op'.name = "rule" /\ op'.a = "Gsub1" /\ cur_feature_name # None) =>
              /\ ~panicked'
              /\ lookups'.current # None
              /\ lookups'.current[1].kind = "GsubType1"
              /\ LET after == lookups'.current[1].subtables IN
                 /\ after[Len(after)] # EmptyMap
                 /\ (lookups.current # None /\ lookups.current[1].kind = "GsubType1") =>
                       LET before == lookups.current[1].subtables IN
                       /\ Len(after) = Len(before)
                       /\ \A i \in 1..(Len(before) - 1) : after[i] = before[i]
      ]_vars

C18_first_wins ==
    LET log == args[1]
        b == builder[1]
        same(i, j) == /\ log[j].fn = "insert_pair"
                      /\ log[j].one = log[i].one /\ log[j].two = log[i].two
    IN \A i \in 1..Len(log) :
          (log[i].fn = "insert_pair" /\ \A j \in 1..(i - 1) : ~same(i, j)) =>
             /\ log[i].one \in DOMAIN b.pairs
             /\ log[i].two \in DOMAIN b.pairs[log[i].one]
             /\ b.pairs[log[i].one][log[i].two] = <<log[i].record1, log[i].record2>>
             /\ op.name = "build" =>
                   LET built == out[1]
                       found == {x \in UNION {{<<t, s, k>> :
                                                 s \in 1..Len(built[t].coverage),
                                                 k \in 1..MaxInserts} : t \in 1..Len(built)} :
                                    /\ x[3] <= Len(built[x[1]].pair_sets[x[2]])
                                    /\ built[x[1]].coverage[x[2]] = log[i].one
                                    /\ built[x[1]].pair_sets[x[2]][x[3]].second_glyph = log[i].two}
                   IN /\ Cardinality(found) = 1
                      /\ \A x \in found :
                            LET rec == built[x[1]].pair_sets[x[2]][x[3]] IN
                            /\ rec.value_record1 = log[i].record1
                            /\ rec.value_record2 = log[i].record2

\* C18's case: the pair (1, 2) was inserted with 100, then again with -50 on the
\* second glyph, another pair was inserted, and the pairs were built.
C18_witness ==
    /\ op.name = "build"
    /\ Len(args[1]) = 3
    /\ args[1][1] = [fn |-> "insert_pair", one |-> 1, two |-> 2,
                     record1 |-> XAdvance(100), record2 |-> ValueRecord_default]
    /\ args[1][2] = [fn |-> "insert_pair", one |-> 1, two |-> 2,
                     record1 |-> ValueRecord_default, record2 |-> XAdvance(-50)]
    /\ args[1][3].fn = "insert_pair"
    /\ builder[1].pairs[1][2] = <<XAdvance(100), ValueRecord_default>>
    /\ Len(out[1]) >= 1

\* C20: len() is the number of stored glyph pairs plus the number of stored
\* (class1, class2) pairs over all class-pair subtables, and is_empty() is true
\* exactly when no rule has been added.
C20_len ==
    op.name = "len" =>
        LET b == builder[1]
            glyph_pairs == UNION {{<<g1, g2>> : g2 \in DOMAIN b.pairs[g1]} : g1 \in DOMAIN b.pairs}
            class_pairs == UNION {UNION {{<<i, c1, c2>> : c2 \in DOMAIN b.classes[i].items[c1]} :
                                            c1 \in DOMAIN b.classes[i].items} :
                                     i \in 1..Len(b.classes)}
        IN /\ out[1].len = Cardinality(glyph_pairs) + Cardinality(class_pairs)
           /\ out[1].is_empty <=> args[1] = << >>

\* C19: scenario S1 through compile(). A pair positioning rule in a feature is
\* compiled into the current pair positioning lookup; after `pos A B 100;` the pair
\* (A, B) has the value 100, after `enum pos @A B -50;` the pairs (Aacute, B) and
\* (Agrave, B) have the value -50, and a pair the lookup already held keeps its value.
C19_scenario_S1 ==
    [][ (op'.name = "rule" /\ op'.a = "Gpos2" /\ cur_feature_name # None) =>
           /\ ~panicked'
           /\ lookups'.current # None
           /\ lookups'.current[1].kind = "GposType2"
           /\ LET subtables == lookups'.current[1].subtables
                  after == subtables[Len(subtables)]
                  held == IF lookups.current # None /\ lookups.current[1].kind = "GposType2"
                          THEN lookups.current[1].subtables[Len(lookups.current[1].subtables)]
                          ELSE EmptyMap
              IN /\ \A pair \in DOMAIN held :
                       pair \in DOMAIN after /\ after[pair] = held[pair]
                 /\ (op'.b = "Glyph" /\ <<1, 2>> \notin DOMAIN held) =>
                       /\ <<1, 2>> \in DOMAIN after
                       /\ after[<<1, 2>>] = <<XAdvance(100), ValueRecord_default>>
                 /\ op'.b = "Class" =>
                       \A first \in {3, 4} :
                          /\ <<first, 2>> \in DOMAIN after
                          /\ after[<<first, 2>>] = <<XAdvance(-50), ValueRecord_default>>
      ]_vars

\* C21: a stored pair is a format-1 candidate exactly when replacement - target lies
\* in [-32768, 32767]. In the build output every pair of the builder is in one
\* subtable; a format-1 subtable covers only targets whose replacement - target is
\* its delta; there is at most one format-2 subtable, sorted by target; and no two
\* format-1 subtables have the same delta.
C21_single_sub_formats ==
    LET items == builder[1].items IN
    /\ \A t \in DOMAIN items :
          (items[t][2][1] = "Delta") <=>
              (items[t][1] - t >= -32768 /\ items[t][1] - t <= 32767)
    /\ op.name = "build" =>
          LET built == out[1] IN
          /\ \A t \in DOMAIN items :
                Cardinality({x \in UNION {{<<i, j>> : j \in 1..Len(built[i].coverage)} :
                                             i \in 1..Len(built)} :
                                built[x[1]].coverage[x[2]] = t}) = 1
          /\ \A i \in 1..Len(built) :
                /\ \A j \in 1..Len(built[i].coverage) :
                      LET t == built[i].coverage[j] IN
                      /\ t \in DOMAIN items
                      /\ built[i].format = 1 => items[t][1] - t = built[i].delta
                      /\ built[i].format = 2 => built[i].substitutes[j] = items[t][1]
                /\ built[i].format = 2 =>
                      \A j \in 1..(Len(built[i].coverage) - 1) :
                         built[i].coverage[j] < built[i].coverage[j + 1]
          /\ Cardinality({i \in 1..Len(built) : built[i].format = 2}) <= 1
          /\ \A i, k \in 1..Len(built) :
                (i # k /\ built[i].format = 1 /\ built[k].format = 1) =>
                   built[i].delta # built[k].delta

\* C21's case: a build that gave a format-2 subtable holding a pair whose delta is
\* out of the i16 range, and a format-1 subtable of at least six targets.
C21_witness ==
    /\ op.name = "build"
    /\ Len(out[1]) = 2
    /\ out[1][1].format = 2
    /\ \E j \in 1..Len(out[1][1].coverage) :
          out[1][1].substitutes[j] - out[1][1].coverage[j] > 32767
    /\ out[1][2].format = 1
    /\ Len(out[1][2].coverage) >= 6

\* C22: insert_mark(gid, class, anchor) returns the error PreviouslyAssignedClass
\* naming the previous class exactly when gid was registered under another class, and
\* then the glyph keeps its first assignment (class id and anchor); every glyph is
\* recorded under one class id, that of a known class.
C22_insert_mark ==
    [][ op'.name = "insert_mark" =>
           LET before == builder[1].marks
               after == builder'[1].marks
               glyph == op'.a
               class == op'.b
               other == /\ glyph \in DOMAIN before.glyphs
                        /\ \/ class \notin DOMAIN before.classes
                           \/ before.classes[class] # before.glyphs[glyph][1]
           IN /\ other <=> out'[1][1] = "Err"
              /\ other =>
                    /\ before.classes[out'[1][2].class] = before.glyphs[glyph][1]
                    /\ after.glyphs[glyph] = before.glyphs[glyph]
              /\ \A g \in DOMAIN after.glyphs :
                    \E name \in DOMAIN after.classes : after.classes[name] = after.glyphs[g][1]
      ]_vars

\* C23: the component list of a ligature glyph has the length given by the glyph's
\* first insert_ligature, and a later call for the glyph with another number of
\* components is rejected by an assertion and not applied.
C23_component_count ==
    [][ op'.name = "insert_ligature" =>
           LET before == builder[1].ligatures
               after == builder'[1].ligatures
               glyph == op'.a
               components == op'.c
           IN IF glyph \notin DOMAIN before
              THEN ~panicked' /\ Len(after[glyph]) = Len(components)
              ELSE IF Len(components) = Len(before[glyph])
              THEN ~panicked' /\ Len(after[glyph]) = Len(before[glyph])
              ELSE panicked' /\ after = before
      ]_vars

\* C24: building is deterministic. Whatever order the hash maps of PosSubBuilder
\* (scripts, languages, features) and of the single-pos builder (records, formats) are
\* iterated in, the built value is the same one.
C24_determinism ==
    (op.name = "build") =>
        /\ builder[1][1] = "PosSub" => out[1] = PosSubBuilder_build(builder[1][2])
        /\ builder[1][1] = "SinglePos" =>
              LET items == builder[1][2] IN
              \A records_order \in Perms({items[g] : g \in DOMAIN items}),
                 formats_order \in Perms({0, 4}) :
                 out[1] = SinglePosBuilder_build(items, records_order, formats_order)

\* three subtables built from single-pos items, the largest not made first
C24_witness ==
    /\ op.name = "build"
    /\ builder[1][1] = "SinglePos"
    /\ Len(out[1]) = 3
    /\ out[1][1].records[1] # op.a[1][1]

\* C29: feature indices are dense from 0 in order of first occurrence of the
\* (tag, lookup list) pair; equal pairs share an index, distinct pairs differ; the
\* built feature list holds each pair at its index; each (script, language) lists the
\* indices of its adds, language dflt as default_language_system, others by language.
C29_feature_indices ==
    (builder[1][1] = "PosSub") =>
        LET log == args[1]
            b == builder[1][2]
            n == Len(log)
            fk(i) == <<log[i].key[1], [k \in 1..Len(log[i].lookups) |-> to_raw(log[i].lookups[k])]>>
            first(i) == CHOOSE j \in 1..i : fk(j) = fk(i) /\ \A k \in 1..(j - 1) : fk(k) # fk(i)
            idx(i) == Cardinality({fk(j) : j \in 1..(first(i) - 1)})
            count == Cardinality({fk(i) : i \in 1..n})
            at(sc, l) == LET is == sorted({i \in 1..n : log[i].key[2] = sc /\ log[i].key[3] = l})
                         IN [k \in 1..Len(is) |-> idx(is[k])]
            langs(sc) == {log[i].key[3] : i \in {j \in 1..n : log[j].key[2] = sc}}
        IN /\ DOMAIN b.features = {fk(i) : i \in 1..n}
           /\ \A i \in 1..n : b.features[fk(i)] = idx(i)
           /\ {b.features[k] : k \in DOMAIN b.features} = 0..(count - 1)
           /\ \A i, j \in 1..n : (fk(i) = fk(j)) <=> (idx(i) = idx(j))
           /\ (op.name = "build" /\ out[1] # None) =>
                 LET built == out[1][1] IN
                 /\ Len(built.features) = count
                 /\ \A i \in 1..n : built.features[idx(i) + 1] = fk(i)
                 /\ DOMAIN built.scripts = {log[i].key[2] : i \in 1..n}
                 /\ \A sc \in DOMAIN built.scripts :
                       /\ built.scripts[sc].default_language_system =
                             (IF LANG_DFLT_TAG \in langs(sc) THEN Some(at(sc, LANG_DFLT_TAG))
                              ELSE None)
                       /\ DOMAIN built.scripts[sc].language_systems = langs(sc) \ {LANG_DFLT_TAG}
                       /\ \A l \in langs(sc) \ {LANG_DFLT_TAG} :
                             built.scripts[sc].language_systems[l] = at(sc, l)

\* built after three adds, two of them with the same (tag, lookup list), under a
\* dflt and a non-dflt language
C29_witness ==
    /\ builder[1][1] = "PosSub"
    /\ op.name = "build"
    /\ out[1] # None
    /\ Len(args[1]) = 3
    /\ Len(out[1][1].features) = 2
    /\ \E sc \in DOMAIN out[1][1].scripts :
          /\ out[1][1].scripts[sc].default_language_system # None
          /\ out[1][1].scripts[sc].language_systems # EmptyMap

\* C25: whatever top-level items came before, entering a feature finds no current
\* lookup and an empty cur_language_systems (neither assertion fails), and leaves
\* cur_language_systems equal to default_lang_systems when that is non-empty and to
\* {(DFLT, dflt)} otherwise, lookup_flags empty and cur_mark_filter_set None.
C25_feature_entry ==
    [][ op'.name = "start_feature" =>
          /\ lookups.current = None
          /\ cur_language_systems = {}
          /\ ~panicked'
          /\ cur_language_systems' =
                (IF default_lang_systems # {} THEN default_lang_systems
                 ELSE {<<SCRIPT_DFLT_TAG, LANG_DFLT_TAG>>})
          /\ cur_feature_name' = Some(op'.a)
          /\ lookup_flags' = 0
          /\ cur_mark_filter_set' = None
      ]_vars

\* a later feature entered with language systems declared, after an earlier feature
\* with a script statement has ended
C25_witness ==
    /\ op.name = "start_feature"
    /\ ~panicked
    /\ features # EmptyMap
    /\ default_lang_systems # {}
    /\ cur_language_systems = default_lang_systems

\* C26: entering a feature clears cur_script, so that a language statement with no
\* script statement before it in the feature is taken under script DFLT.
C26_script_cleared ==
    [][ /\ (op'.name = "start_feature" /\ ~panicked') => script' = None
        /\ ( /\ op.name = "start_feature"
             /\ op'.name = "set_language"
             /\ cur_feature_name \notin {Some(AALT_TAG), Some(SIZE_TAG)}
             /\ ~panicked' ) =>
             cur_language_systems' = {<<SCRIPT_DFLT_TAG, op'.a>>}
      ]_vars

\* C27: the end of a feature finalizes a still-open anonymous lookup and appends its
\* id to features[(tag, script, lang)] for every (script, lang) of
\* cur_language_systems; afterwards there is no current lookup, cur_feature_name is
\* None, cur_language_systems and lookup_flags are empty and cur_mark_filter_set is
\* None.
C27_feature_end ==
    [][ (op'.name = "end_feature" /\ ~panicked') =>
          /\ lookups'.current = None
          /\ cur_feature_name' = None
          /\ cur_language_systems' = {}
          /\ lookup_flags' = 0
          /\ cur_mark_filter_set' = None
          /\ IF lookups.current # None
             THEN /\ op'.bound # None
                  /\ op'.bound[1] \in DOMAIN issued'
                  /\ issued'[op'.bound[1]] = lookups.current[1]
                  /\ \A sl \in cur_language_systems :
                        LET k == <<cur_feature_name[1], sl[1], sl[2]>> IN
                        /\ k \in DOMAIN features'
                        /\ features'[k] =
                              Append(IF k \in DOMAIN features THEN features[k] ELSE << >>,
                                     op'.bound[1])
             ELSE features' = features
      ]_vars

\* a feature under two language systems has ended with an anonymous lookup open that
\* carried a mark filtering set
C27_witness ==
    /\ op.name = "end_feature"
    /\ ~panicked
    /\ op.bound # None
    /\ Cardinality(DOMAIN features) = 2
    /\ issued[op.bound[1]].mark_filtering_set # None

\* C30 as stated: lookup_flags is empty and cur_mark_filter_set is None immediately
\* after a feature starts, after a feature ends, on entry to a top-level lookup block,
\* and after the end of every lookup block, one nested in a feature included.
C30_flags_reset_every_block ==
    [][ ( /\ ~panicked'
          /\ \/ op'.name \in {"start_feature", "end_feature", "end_lookup_block"}
             \/ op'.name = "start_lookup_block" /\ cur_feature_name = None ) =>
          /\ lookup_flags' = 0
          /\ cur_mark_filter_set' = None
      ]_vars

\* C30: lookup_flags is empty and cur_mark_filter_set is None immediately after a
\* feature starts, after a feature ends, and on entry to and after the end of a
\* top-level lookup block; the end of a lookup block nested in a feature leaves both
\* as they were.
C30_flags_reset ==
    [][ /\ ( /\ ~panicked'
             /\ \/ op'.name \in {"start_feature", "end_feature"}
                \/ /\ op'.name \in {"start_lookup_block", "end_lookup_block"}
                   /\ cur_feature_name = None ) =>
             /\ lookup_flags' = 0
             /\ cur_mark_filter_set' = None
        /\ (~panicked' /\ op'.name = "end_lookup_block" /\ cur_feature_name # None) =>
             /\ lookup_flags' = lookup_flags
             /\ cur_mark_filter_set' = cur_mark_filter_set
      ]_vars

\* a lookup block nested in a feature has ended with flags and a mark filtering set
\* in force
C30_witness ==
    /\ op.name = "end_lookup_block"
    /\ ~panicked
    /\ cur_feature_name # None
    /\ lookup_flags # 0
    /\ cur_mark_filter_set # None

C31_no_small_format_1 ==
    (op.name = "build") =>
        \A i \in 1..Len(out[1]) :
           out[1][i].format = 1 =>
              Len(out[1][i].coverage) >= N_GLYPHS_TO_JUSTIFY_EXTRA_SUB1F1

\* C31: when the inserts fall into more than one subtable candidate (delta groups,
\* plus one for the pairs that need format 2), every delta group with fewer than
\* N_GLYPHS_TO_JUSTIFY_EXTRA_SUB1F1 entries is merged into the format-2 subtable and
\* no format-1 subtable with fewer entries is emitted; a single candidate is emitted
\* as it is, whatever its size.
C31_small_groups_merged ==
    (op.name = "build") =>
        LET items == builder[1].items
            built == out[1]
            in_range == {t \in DOMAIN items : items[t][1] - t \in -32768..32767}
            deltas == {items[t][1] - t : t \in in_range}
            group(d) == {t \in in_range : items[t][1] - t = d}
            candidates == Cardinality(deltas) + (IF in_range # DOMAIN items THEN 1 ELSE 0)
            small(d) == Cardinality(group(d)) < N_GLYPHS_TO_JUSTIFY_EXTRA_SUB1F1
            covered(i) == {built[i].coverage[j] : j \in 1..Len(built[i].coverage)}
        IN IF candidates <= 1
           THEN /\ Len(built) = candidates
                /\ \A i \in 1..Len(built) :
                      built[i].format = (IF in_range = DOMAIN items THEN 1 ELSE 2)
           ELSE /\ \A i \in 1..Len(built) :
                      built[i].format = 1 =>
                         Len(built[i].coverage) >= N_GLYPHS_TO_JUSTIFY_EXTRA_SUB1F1
                /\ \A d \in deltas :
                      IF small(d)
                      THEN \E i \in 1..Len(built) :
                              built[i].format = 2 /\ group(d) \subseteq covered(i)
                      ELSE \E i \in 1..Len(built) :
                              built[i].format = 1 /\ built[i].delta = d
                              /\ covered(i) = group(d)

\* a build that merged a small delta group into format 2 and kept a large one
C31_witness ==
    /\ op.name = "build"
    /\ Len(out[1]) = 2
    /\ out[1][1].format = 2
    /\ \E j \in 1..Len(out[1][1].coverage) :
          out[1][1].substitutes[j] - out[1][1].coverage[j] = 20
    /\ out[1][2].format = 1
    /\ Len(out[1][2].coverage) >= N_GLYPHS_TO_JUSTIFY_EXTRA_SUB1F1

\* C38: the build preserves the accumulated mapping. Every target ever inserted is in
\* the coverage of exactly one output subtable, which maps it to the replacement of
\* its last insert; no other glyph is covered.
C38_mapping_preserved ==
    (op.name = "build") =>
        LET last == args[1]
            built == out[1]
            places(t) == {x \in UNION {{<<i, j>> : j \in 1..Len(built[i].coverage)} :
                                          i \in 1..Len(built)} :
                            built[x[1]].coverage[x[2]] = t}
            image(x) == IF built[x[1]].format = 1
                        THEN (built[x[1]].coverage[x[2]] + built[x[1]].delta) % 65536
                        ELSE built[x[1]].substitutes[x[2]]
        IN /\ \A t \in DOMAIN last :
                 /\ Cardinality(places(t)) = 1
                 /\ \A x \in places(t) : image(x) = last[t]
           /\ \A i \in 1..Len(built) :
                 \A j \in 1..Len(built[i].coverage) : built[i].coverage[j] \in DOMAIN last

\* a build after a target was inserted twice with different replacements, giving
\* subtables of both formats
C38_witness ==
    /\ op.name = "build"
    /\ 0 \in DOMAIN args[1]
    /\ args[1][0] = 20
    /\ 1 \in DOMAIN args[1]
    /\ args[1][1] = 11
    /\ \E i, k \in 1..Len(out[1]) : out[1][i].format = 1 /\ out[1][k].format = 2

\* C34: an insert changes only the latest accumulator. When every class the latest
\* accumulator holds on the first (second) side is identical to or disjoint from the
\* new first (second) class, the pair goes into it and its other pairs stay; otherwise
\* a new accumulator is appended that holds the pair alone. Earlier accumulators are
\* unchanged, and in every accumulator the classes of a side are pairwise identical or
\* disjoint.
C34_latest_accumulator ==
    [][ op'.name = "insert" =>
          LET subs == builder[1]
              after == builder'[1]
              n == Len(subs)
              e == args'[1][Len(args'[1])]
              side1(sub) == DOMAIN sub.items
              side2(sub) == UNION {DOMAIN sub.items[c1] : c1 \in DOMAIN sub.items}
              accepts(side, cls) == \A c \in side : c = cls \/ c \cap cls = {}
              fits == n > 0 /\ accepts(side1(subs[n]), e.one) /\ accepts(side2(subs[n]), e.two)
              latest == after[Len(after)]
          IN /\ Len(after) = (IF fits THEN n ELSE n + 1)
             /\ \A i \in 1..(Len(after) - 1) : after[i] = subs[i]
             /\ e.one \in DOMAIN latest.items
             /\ e.two \in DOMAIN latest.items[e.one]
             /\ \A c1 \in DOMAIN latest.items : \A c2 \in DOMAIN latest.items[c1] :
                   <<c1, c2>> # <<e.one, e.two>> =>
                      /\ fits
                      /\ c1 \in DOMAIN subs[n].items
                      /\ c2 \in DOMAIN subs[n].items[c1]
                      /\ latest.items[c1][c2] = subs[n].items[c1][c2]
             /\ fits => \A c1 \in DOMAIN subs[n].items : \A c2 \in DOMAIN subs[n].items[c1] :
                           c1 \in DOMAIN latest.items /\ c2 \in DOMAIN latest.items[c1]
             /\ \A i \in 1..Len(after) :
                   /\ \A a, b \in side1(after[i]) : a = b \/ a \cap b = {}
                   /\ \A a, b \in side2(after[i]) : a = b \/ a \cap b = {}
      ]_vars

\* three inserts, each overlapping a class of the accumulator before it, so that each
\* opened a new one
C34_witness ==
    /\ op.name = "insert"
    /\ Len(builder[1]) = 3
    /\ Len(args[1]) = 3

C40_class_pair_last_wins ==
    [][ ( /\ op'.name = "insert"
          /\ Len(builder[1]) > 0
          /\ LET e == args'[1][Len(args'[1])]
                 last == builder[1][Len(builder[1])]
             IN e.one \in DOMAIN last.items /\ e.two \in DOMAIN last.items[e.one] ) =>
          LET e == args'[1][Len(args'[1])]
              n == Len(builder[1])
              stored(subs) == UNION {UNION {{<<i, c1, c2>> : c2 \in DOMAIN subs[i].items[c1]} :
                                               c1 \in DOMAIN subs[i].items} : i \in 1..Len(subs)}
          IN /\ Len(builder'[1]) = n
             /\ builder'[1][n].items[e.one][e.two] = <<e.record1, e.record2>>
             /\ stored(builder'[1]) = stored(builder[1])
      ]_vars

\* the same class pair inserted twice with different records
C40_witness ==
    /\ op.name = "insert"
    /\ Len(args[1]) = 2
    /\ args[1][1].one = args[1][2].one
    /\ args[1][1].two = args[1][2].two
    /\ args[1][1].record1 # args[1][2].record1
    /\ Len(builder[1]) = 1
    /\ builder[1][1].items[args[1][2].one][args[1][2].two][1] = args[1][2].record1

C32_ligature_order ==
    (op.name = "build") =>
        LET log == args[1]
            built == out[1]
            firsts == {log[i].target[1] : i \in 1..Len(log)}
            of(f, n) == SelectSeq(log, LAMBDA e : e.target[1] = f /\ Len(e.target) = n + 1)
            expected(f) == of(f, 2) \o of(f, 1) \o of(f, 0)
        IN /\ Len(built) = 1
           /\ Len(built[1].coverage) = Cardinality(firsts)
           /\ {built[1].coverage[p] : p \in 1..Len(built[1].coverage)} = firsts
           /\ \A p \in 1..(Len(built[1].coverage) - 1) :
                 built[1].coverage[p] < built[1].coverage[p + 1]
           /\ Len(built[1].ligature_sets) = Len(built[1].coverage)
           /\ \A p \in 1..Len(built[1].coverage) :
                 LET set == built[1].ligature_sets[p]
                     want == expected(built[1].coverage[p])
                 IN /\ Len(set) = Len(want)
                    /\ \A i \in 1..Len(set) :
                          /\ set[i].ligature_glyph = want[i].replacement
                          /\ <<built[1].coverage[p]>> \o set[i].component_glyph_ids
                                = want[i].target

\* three ligatures of one first component built, a longer one inserted between two of
\* equal length
C32_witness ==
    /\ op.name = "build"
    /\ Len(args[1]) = 3
    /\ args[1][1] = [target |-> <<1, 2>>, replacement |-> 8]
    /\ args[1][2] = [target |-> <<1, 1, 2>>, replacement |-> 7]
    /\ args[1][3] = [target |-> <<1, 1>>, replacement |-> 7]
    /\ out[1][1].ligature_sets[1][2].ligature_glyph = 8

\* C36: the lookup lists of features are append-only. After every operation each key
\* is still there and the list it held before is a prefix of the list it holds.
C36_append_only ==
    [][ \A k \in DOMAIN features :
           /\ k \in DOMAIN features'
           /\ Len(features'[k]) >= Len(features[k])
           /\ SubSeq(features'[k], 1, Len(features[k])) = features[k]
      ]_vars

\* C37: cur_mark_filter_set is Some only while lookup_flags contains
\* USE_MARK_FILTERING_SET, and a current lookup whose flags lack that bit has no mark
\* filtering set.
C37_filter_set_with_flag ==
    LET has_bit(flags) == (flags \div USE_MARK_FILTERING_SET) % 2 = 1 IN
    /\ cur_mark_filter_set # None => has_bit(lookup_flags)
    /\ (lookups.current # None /\ ~has_bit(lookups.current[1].flags)) =>
          lookups.current[1].mark_filtering_set = None

\* C39: in a MarkList the class ids are 0, 1, .. in the order in which the class
\* names were first given to insert, distinct names have distinct ids, and every
\* class id stored for a mark glyph or for an anchor of a base / mark2 glyph is below
\* the number of classes; so no build of the mark-to-base, mark-to-mark and
\* mark-to-ligature builders writes a cell out of bounds, and every record it builds
\* has n_classes cells, filled exactly for the classes an anchor was given for.
C39_dense_class_ids ==
    LET b == builder[1]
        marks == IF "marks" \in DOMAIN b THEN b.marks ELSE b.attaching_marks
        anchors == IF "bases" \in DOMAIN b THEN b.bases
                   ELSE IF "base_marks" \in DOMAIN b THEN b.base_marks ELSE EmptyMap
        n_classes == Cardinality(DOMAIN marks.classes)
        given(g, k) == \E i \in 1..Len(anchors[g]) : anchors[g][i][1] = k - 1
        named(comp, k) == \E c \in DOMAIN comp : marks.classes[c] = k - 1
        cells_ok(cells, has(_)) ==
            /\ Len(cells) = n_classes
            /\ \A k \in 1..n_classes : cells[k] # None <=> has(k)
    IN /\ Len(args[1]) = n_classes
       /\ \A i \in 1..Len(args[1]) :
             args[1][i] \in DOMAIN marks.classes /\ marks.classes[args[1][i]] = i - 1
       /\ \A c, d \in DOMAIN marks.classes : c # d => marks.classes[c] # marks.classes[d]
       /\ \A g \in DOMAIN marks.glyphs : marks.glyphs[g][1] < n_classes
       /\ \A g \in DOMAIN anchors : \A i \in 1..Len(anchors[g]) : anchors[g][i][1] < n_classes
       /\ (op.name = "build" /\ out # None) =>
             /\ out[1].panic # "index"
             /\ out[1].panic = "none" =>
                   \A i \in 1..Len(out[1].base_array) :
                      LET g == out[1].base_coverage[i] IN
                      IF "ligatures" \in DOMAIN b
                      THEN /\ Len(out[1].base_array[i]) = Len(b.ligatures[g])
                           /\ \A j \in 1..Len(out[1].base_array[i]) :
                                 LET has(k) == named(b.ligatures[g][j], k) IN
                                 cells_ok(out[1].base_array[i][j], has)
                      ELSE LET has(k) == given(g, k) IN
                           cells_ok(out[1].base_array[i], has)

\* a builder with two classes was built and one of its records has a null cell
\* beside a filled one
C39_witness ==
    /\ op.name = "build" /\ out # None /\ out[1].panic = "none"
    /\ Len(args[1]) = 2
    /\ \E i \in 1..Len(out[1].base_array) :
          LET rec == out[1].base_array[i]
              cells == IF "ligatures" \in DOMAIN builder[1] THEN rec[1] ELSE rec
          IN /\ "ligatures" \in DOMAIN builder[1] => Len(rec) >= 1
             /\ Len(cells) = 2
             /\ \E k, l \in 1..2 : cells[k] = None /\ cells[l] # None

====
